---- MODULE Spec2Model ----
(***************************************************************************)
(* Hybrid retrieval and fusion engine of AgentCaixa.                       *)
(*                                                                         *)
(* The components are modelled side by side, each with its own state:      *)
(*   - the weighted Reciprocal Rank Fusion of HybridRetriever              *)
(*     (src/retriever.py), variable fus;                                   *)
(*   - VectorRetriever with its embedding cache and remote backends        *)
(*     (src/rag_app/agent/vector_index.py, embedding_cache.py), variables  *)
(*     vec, cache, redis, vcall;                                           *)
(*   - the snippet helpers and the reranker of AgentService                *)
(*     (src/rag_app/agent/service.py), variable svc;                       *)
(*   - AgentService.chat (service.py), variable chat;                      *)
(*   - _request_with_retries (llm_gateway.py), variable rq;                *)
(*   - retrieve_context (knowledge.py), variable lex;                      *)
(*   - the lexical index of HybridRetriever, with one thread and with two  *)
(*     threads (src/retriever.py), variable idx.                           *)
(*                                                                         *)
(* Scores are exact rationals kept as integers over a fixed denominator:   *)
(* floating point rounding is not modelled.                                *)
(***************************************************************************)
EXTENDS Integers, Sequences, FiniteSets, TLC

VARIABLES fus, svc, vec, cache, redis, vcall, chat, rq, lex, idx,
          lote, stream, mem, scan

vars == <<fus, svc, vec, cache, redis, vcall, chat, rq, lex, idx,
          lote, stream, mem, scan>>

(***************************************************************************)
(* Bounds                                                                  *)
(***************************************************************************)
MaxLen == 3
MaxTopK == 3

(***************************************************************************)
(* Units.  A genuine embedding has Euclidean norm EmbNorm; a snippet score *)
(* is counted in units of 1/ScoreOne, so that (cos + 1) / 2 is an integer  *)
(* number of units.                                                        *)
(***************************************************************************)
EmbNorm == 5

ScoreOne == 2 * EmbNorm * EmbNorm

(***************************************************************************)
(* Generic helpers                                                         *)
(***************************************************************************)
Range(s) == {s[i] : i \in DOMAIN s}

(* s[:n] of Python: a negative n counts from the end.                      *)
Take(s, n) ==
    IF n < 0
    THEN SubSeq(s, 1, IF Len(s) + n > 0 THEN Len(s) + n ELSE 0)
    ELSE SubSeq(s, 1, IF n < Len(s) THEN n ELSE Len(s))

SeqsUpTo(S, n) == UNION {[1..m -> S] : m \in 0..n}

NoDup(s) == \A i, j \in DOMAIN s : i # j => s[i] # s[j]

Max2(a, b) == IF a >= b THEN a ELSE b

Min2(a, b) == IF a <= b THEN a ELSE b

(* Python's sorted(..., reverse=True): a stable sort, elements with equal  *)
(* keys keep their input order.  keys[i] is the key of the i-th element;   *)
(* the result is the sequence of input positions in output order.          *)
RECURSIVE InsertDescUnstable(_, _, _)
InsertDescUnstable(perm, keys, i) ==
    IF perm = <<>> THEN <<i>>
    ELSE IF keys[Head(perm)] > keys[i]
         THEN <<Head(perm)>> \o InsertDescUnstable(Tail(perm), keys, i)
         ELSE <<i>> \o perm

RECURSIVE InsertDesc(_, _, _)
InsertDesc(perm, keys, i) ==
    IF perm = <<>> THEN <<i>>
    ELSE IF keys[Head(perm)] >= keys[i]
         THEN <<Head(perm)>> \o InsertDesc(Tail(perm), keys, i)
         ELSE <<i>> \o perm

RECURSIVE SortIdx(_, _)
SortIdx(keys, n) ==
    IF n = 0 THEN <<>> ELSE InsertDesc(SortIdx(keys, n - 1), keys, n)

sorted_reverse(keys) == SortIdx(keys, Len(keys))

Permute(s, perm) == [i \in DOMAIN perm |-> s[perm[i]]]

(***************************************************************************)
(* HybridRetriever._fundir_rankings (src/retriever.py)                     *)
(*                                                                         *)
(* An item of a ranked list is its chunk id: conteudo, metadados,          *)
(* score_bm25 and score_vetorial are carried through and never read by the *)
(* ranking.  Both input lists hold distinct ids (Chroma ids are unique)    *)
(* and at most top_k entries, as buscar passes them.                       *)
(***************************************************************************)
ChunkIds == {"a", "b", "c", "d"}

K_RRF == 60

(* Weights in twentieths: 13/20 = 0.65 and 7/20 = 0.35 are the defaults.   *)
PesoUm == 20

Pesos == {<<13, 7>>, <<20, 0>>, <<0, 20>>, <<10, 10>>, <<0, 0>>}

RECURSIVE RrfProd(_)
RrfProd(n) == IF n = 0 THEN 1 ELSE (K_RRF + n) * RrfProd(n - 1)

(* Common denominator of 1/(k_rrf + pos) for every rank of a list.         *)
RrfDen == RrfProd(MaxLen)

RrfZeroBased(pos) == RrfDen \div (K_RRF + pos - 1)

(* 1.0 / (k_rrf + pos) for pos counted from 1, as a multiple of 1/RrfDen.  *)
RrfTerm(pos) == RrfDen \div (K_RRF + pos)

HasEntry(acc, id) == \E i \in DOMAIN acc : acc[i].id = id

(* acumulador.setdefault(chunk_id, {... "score_hibrido": 0.0}) followed by *)
(* entrada["score_hibrido"] += inc.  The dict keeps insertion order.       *)
Acumular(acc, id, inc) ==
    LET base == IF HasEntry(acc, id) THEN acc
                ELSE Append(acc, [id |-> id, score_hibrido |-> 0])
    IN  [i \in DOMAIN base |->
            IF base[i].id = id
            THEN [base[i] EXCEPT !.score_hibrido = @ + inc]
            ELSE base[i]]

RECURSIVE LoopRanking(_, _, _, _)
LoopRanking(acc, items, pos, peso) ==
    IF pos > Len(items) THEN acc
    ELSE LoopRanking(Acumular(acc, items[pos], peso * RrfTerm(pos)),
                     items, pos + 1, peso)

BuildAcumulador(bm25, vetoriais, peso_bm25, peso_vetorial) ==
    LoopRanking(LoopRanking(<<>>, bm25, 1, peso_bm25), vetoriais, 1, peso_vetorial)

OrdenadosNoTruncate(acc, top_k) ==
    Permute(acc, sorted_reverse([i \in DOMAIN acc |-> acc[i].score_hibrido]))

Ordenados(acc, top_k) ==
    Take(Permute(acc, sorted_reverse([i \in DOMAIN acc |-> acc[i].score_hibrido])),
         top_k)

fundir_rankings(bm25, vetoriais, top_k, peso_bm25, peso_vetorial) ==
    Ordenados(BuildAcumulador(bm25, vetoriais, peso_bm25, peso_vetorial), top_k)

(* A ranked list names each chunk at most once.                            *)
RankedLists == {s \in SeqsUpTo(ChunkIds, MaxLen) : NoDup(s)}

FusIdle == [pc |-> "idle"]

InitFusion ==
    \E top_k \in 1..MaxTopK : \E p \in Pesos :
    \E bm25 \in RankedLists : \E vetoriais \in RankedLists :
        fus = [pc |-> "call",
               resultados_bm25 |-> bm25,
               resultados_vetoriais |-> vetoriais,
               top_k |-> top_k,
               peso_bm25 |-> p[1],
               peso_vetorial |-> p[2],
               acumulador |-> <<>>,
               ranking_final |-> <<>>]

FundirRankings ==
    /\ fus.pc = "call"
    /\ fus' = [fus EXCEPT
                 !.pc = "done",
                 !.acumulador = BuildAcumulador(fus.resultados_bm25,
                                                fus.resultados_vetoriais,
                                                fus.peso_bm25, fus.peso_vetorial),
                 !.ranking_final = fundir_rankings(fus.resultados_bm25,
                                                   fus.resultados_vetoriais,
                                                   fus.top_k,
                                                   fus.peso_bm25, fus.peso_vetorial)]
    /\ UNCHANGED <<svc, vec, cache, redis, vcall, chat, rq, lex, idx,
                   lote, stream, mem, scan>>

(***************************************************************************)
(* Snippet helpers and reranker of AgentService                            *)
(* (src/rag_app/agent/service.py)                                          *)
(*                                                                         *)
(* A ContextSnippet is [source, content, score]; score is counted in       *)
(* units of 1/ScoreOne.  A text is the sequence of its whitespace          *)
(* separated words (what str.split() returns).                             *)
(***************************************************************************)
MaxDedupLen == 3
MaxCand == 6
MaxText == 4
MaxVals == 3

RERANK_CANDIDATE_CAP == 20
MAX_SELECTED_INDEXES == 5
RERANK_FALLBACK_TOP == 5

(* token.strip(".,:;!?()[]{}\"'").lower() on the words the model uses.     *)
StripLower(word) ==
    CASE word = "Agente," -> "agente"
      [] word = "?"       -> ""
      [] OTHER            -> word

TextAgente == <<"Agente,", "contexto">>
TextPunct == <<"?">>
TextEmpty == <<>>

ContentAgente == <<"agente", "contexto">>
ContentPrazo == <<"prazo", "agente">>

Snippet(source, content, score) ==
    [source |-> source, content |-> content, score |-> score]

SnippetKey(snippet) == <<snippet.source, snippet.content>>

HasKey(seq, key) == \E i \in DOMAIN seq : SnippetKey(seq[i]) = key

(* One step of the loop of _deduplicate_snippets: the dict keeps the       *)
(* position of the first snippet of a key and replaces its value only by a *)
(* strictly higher score.                                                  *)
DedupStepKeepLast(acc, snippet) ==
    IF HasKey(acc, SnippetKey(snippet))
    THEN [i \in DOMAIN acc |->
            IF SnippetKey(acc[i]) = SnippetKey(snippet) THEN snippet ELSE acc[i]]
    ELSE Append(acc, snippet)

DedupStep(acc, snippet) ==
    IF HasKey(acc, SnippetKey(snippet))
    THEN [i \in DOMAIN acc |->
            IF /\ SnippetKey(acc[i]) = SnippetKey(snippet)
               /\ snippet.score > acc[i].score
            THEN snippet ELSE acc[i]]
    ELSE Append(acc, snippet)

RECURSIVE DedupLoop(_, _)
DedupLoop(acc, snippets) ==
    IF snippets = <<>> THEN acc
    ELSE DedupLoop(DedupStep(acc, Head(snippets)), Tail(snippets))

deduplicate_snippets(snippets) == DedupLoop(<<>>, snippets)

QueryTokens(query) == {StripLower(query[i]) : i \in DOMAIN query}

(* rerank_score, multiplied by 10 * ScoreOne * max(1, len(query_tokens)):  *)
(* snippet.score * 0.7 + (overlap / max(1, len(query_tokens))) * 0.3.      *)
rerank_score(query, snippet) ==
    LET query_tokens == QueryTokens(query)
        snippet_tokens == {StripLower(snippet.content[i]) :
                              i \in DOMAIN snippet.content}
        overlap == Cardinality(query_tokens \cap snippet_tokens)
        qn == Max2(1, Cardinality(query_tokens))
    IN  7 * snippet.score * qn + 3 * overlap * ScoreOne

rank_candidates(query, snippets) ==
    IF QueryTokens(query) = {} THEN snippets
    ELSE Permute(snippets,
                 sorted_reverse([i \in DOMAIN snippets |->
                                    rerank_score(query, snippets[i])]))

(* The judge's raw text, as a sequence of pieces: "noise" is any text      *)
(* without braces, "{" and "}" are the braces, "idx_list" is the member    *)
(* "selected_indexes": [items], "idx_scalar" is "selected_indexes": 3,     *)
(* and "other" is a member with another key.  A JSON value of the list is  *)
(* [t, n]: an integer, a boolean (true is 1, false is 0), a float or a     *)
(* string.                                                                 *)
Piece(t, items) == [t |-> t, items |-> items]

Noise == Piece("noise", <<>>)
LBrace == Piece("{", <<>>)
RBrace == Piece("}", <<>>)
OtherMember == Piece("other", <<>>)
IdxScalar == Piece("idx_scalar", <<>>)
IdxList(items) == Piece("idx_list", items)

JInt(n) == [t |-> "int", n |-> n]
JBool(n) == [t |-> "bool", n |-> n]
JFloat(n) == [t |-> "float", n |-> n]
JStr == [t |-> "str", n |-> 0]

(* raw_text.find("{") and raw_text.rfind("}"), 1-based, 0 when absent.     *)
Find(raw_text, t) ==
    IF \E i \in DOMAIN raw_text : raw_text[i].t = t
    THEN CHOOSE i \in DOMAIN raw_text :
            /\ raw_text[i].t = t
            /\ \A j \in 1..(i - 1) : raw_text[j].t # t
    ELSE 0

RFind(raw_text, t) ==
    IF \E i \in DOMAIN raw_text : raw_text[i].t = t
    THEN CHOOSE i \in DOMAIN raw_text :
            /\ raw_text[i].t = t
            /\ \A j \in (i + 1)..Len(raw_text) : raw_text[j].t # t
    ELSE 0

IsMember(piece) == piece.t \in {"idx_list", "idx_scalar", "other"}

(* json.loads succeeds on a slice that starts with "{" exactly when the    *)
(* slice is one object: the braces around members only.                    *)
JsonLoadsOk(slice) ==
    /\ Len(slice) >= 2
    /\ slice[1].t = "{"
    /\ slice[Len(slice)].t = "}"
    /\ \A i \in 2..(Len(slice) - 1) : IsMember(slice[i])

(* payload.get("selected_indexes"): the last member of that key wins.      *)
PayloadGet(slice) ==
    LET at == {i \in DOMAIN slice : slice[i].t \in {"idx_list", "idx_scalar"}}
    IN  IF at = {} THEN Piece("none", <<>>)
        ELSE slice[CHOOSE i \in at : \A j \in at : j <= i]

(* isinstance(value, int): bool is a subclass of int in Python.            *)
IsInstanceInt(value) == value.t \in {"int", "bool"}

RECURSIVE ValidIndexes(_, _, _)
ValidIndexes(valid, items, max_index) ==
    IF items = <<>> THEN valid
    ELSE LET value == Head(items)
             keep == /\ IsInstanceInt(value)
                     /\ ~(value.n < 0 \/ value.n >= max_index)
                     /\ value.n \notin Range(valid)
         IN  ValidIndexes(IF keep THEN Append(valid, value.n) ELSE valid,
                          Tail(items), max_index)

extract_selected_indexes(raw_text, max_index) ==
    LET start == Find(raw_text, "{")
        end == RFind(raw_text, "}")
    IN  IF start = 0 \/ end = 0 \/ end <= start THEN <<>>
        ELSE LET slice == SubSeq(raw_text, start, end)
             IN  IF ~JsonLoadsOk(slice) THEN <<>>
                 ELSE LET selected_indexes == PayloadGet(slice)
                      IN  IF selected_indexes.t # "idx_list" THEN <<>>
                          ELSE Take(ValidIndexes(<<>>, selected_indexes.items,
                                                 max_index),
                                    MAX_SELECTED_INDEXES)

(* The gateway's answer to the rerank prompt: it raises, or returns text.  *)
JudgeRaise == [kind |-> "raise", raw_text |-> <<>>]
JudgeText(raw_text) == [kind |-> "text", raw_text |-> raw_text]

RerankFallback(ranked_candidates) == Take(ranked_candidates, RERANK_FALLBACK_TOP)

rerank_snippets(query, snippets, judge) ==
    IF snippets = <<>> THEN <<>>
    ELSE LET ranked_candidates ==
                 Take(rank_candidates(query, snippets), RERANK_CANDIDATE_CAP)
             selected_indexes ==
                 IF judge.kind = "raise" THEN <<>>
                 ELSE extract_selected_indexes(judge.raw_text,
                                               Len(ranked_candidates))
         IN  IF selected_indexes # <<>>
             THEN [i \in DOMAIN selected_indexes |->
                      ranked_candidates[selected_indexes[i] + 1]]
             ELSE RerankFallback(ranked_candidates)

(* Inputs *)
SnippetSources == {"faq", "doc"}
SnippetContents == {ContentAgente, ContentPrazo}
SnippetScores == {10, 30, 50}

SnippetUniverse ==
    {Snippet(s, c, x) : s \in SnippetSources, c \in SnippetContents,
                        x \in SnippetScores}

DedupInputs == SeqsUpTo(SnippetUniverse, MaxDedupLen)

FonteNames == <<"fonte-0", "fonte-1", "fonte-2", "fonte-3", "fonte-4",
                "fonte-5", "fonte-6", "fonte-7", "fonte-8", "fonte-9">>

CandidateCombos == {<<ContentAgente, 45>>, <<ContentAgente, 20>>,
                    <<ContentPrazo, 45>>}

RerankInputs ==
    {[i \in DOMAIN combo |-> Snippet(FonteNames[i], combo[i][1], combo[i][2])] :
        combo \in SeqsUpTo(CandidateCombos, MaxCand)}

Queries == {TextAgente, TextPunct, TextEmpty}

JsonValues == {JInt(0 - 1), JInt(0), JInt(1), JInt(2), JInt(99),
               JBool(1), JFloat(2), JStr}

SpecExample == <<JInt(2), JInt(0), JInt(2), JInt(99), JInt(0 - 1)>>
TestExample == <<JInt(2), JInt(0), JInt(2), JInt(11), JInt(0 - 1), JInt(4)>>
SixIndexes == <<JInt(0), JInt(1), JInt(2), JInt(3), JInt(4), JInt(5)>>

ItemLists == SeqsUpTo(JsonValues, MaxVals) \cup {SpecExample, TestExample, SixIndexes}

Wrapped(items) == <<Noise, LBrace, IdxList(items), RBrace, Noise>>

ShapePieces == {Noise, LBrace, RBrace, OtherMember, IdxScalar,
                IdxList(<<JInt(2), JInt(0)>>)}

RawTexts == SeqsUpTo(ShapePieces, MaxText) \cup {Wrapped(items) : items \in ItemLists}

MaxIndexes == {2, 5, 6}

JudgeOutcomes ==
    {JudgeRaise}
    \cup {JudgeText(Wrapped(items)) :
             items \in {<<>>, <<JInt(2), JInt(0)>>, <<JInt(99)>>, <<JBool(1)>>,
                        SixIndexes}}
    \cup {JudgeText(t) : t \in {<<Noise>>,
                                <<LBrace, IdxScalar, RBrace>>,
                                <<LBrace, LBrace, IdxList(<<JInt(0)>>), RBrace>>}}

InitService ==
    \/ \E snippets \in DedupInputs :
         svc = [pc |-> "call", op |-> "deduplicate_snippets",
                snippets |-> snippets, result |-> <<>>]
    \/ \E raw_text \in RawTexts : \E max_index \in MaxIndexes :
         svc = [pc |-> "call", op |-> "extract_selected_indexes",
                raw_text |-> raw_text, max_index |-> max_index, result |-> <<>>]
    \/ \E query \in Queries : \E snippets \in RerankInputs :
       \E judge \in JudgeOutcomes :
         svc = [pc |-> "call", op |-> "rerank_snippets",
                query |-> query, snippets |-> snippets, judge |-> judge,
                result |-> <<>>]

DeduplicateSnippets ==
    /\ svc.pc = "call"
    /\ svc.op = "deduplicate_snippets"
    /\ svc' = [svc EXCEPT !.pc = "done",
                          !.result = deduplicate_snippets(svc.snippets)]
    /\ UNCHANGED <<fus, vec, cache, redis, vcall, chat, rq, lex, idx,
                   lote, stream, mem, scan>>

ExtractSelectedIndexes ==
    /\ svc.pc = "call"
    /\ svc.op = "extract_selected_indexes"
    /\ svc' = [svc EXCEPT !.pc = "done",
                          !.result = extract_selected_indexes(svc.raw_text,
                                                              svc.max_index)]
    /\ UNCHANGED <<fus, vec, cache, redis, vcall, chat, rq, lex, idx,
                   lote, stream, mem, scan>>

RerankSnippets ==
    /\ svc.pc = "call"
    /\ svc.op = "rerank_snippets"
    /\ svc' = [svc EXCEPT !.pc = "done",
                          !.result = rerank_snippets(svc.query, svc.snippets,
                                                     svc.judge)]
    /\ UNCHANGED <<fus, vec, cache, redis, vcall, chat, rq, lex, idx,
                   lote, stream, mem, scan>>

NextService == DeduplicateSnippets \/ ExtractSelectedIndexes \/ RerankSnippets

(***************************************************************************)
(* VectorRetriever and EmbeddingCache                                      *)
(* (src/rag_app/agent/vector_index.py, embedding_cache.py)                 *)
(*                                                                         *)
(* An embedding is a vector of integers; a genuine one has Euclidean norm  *)
(* EmbNorm (or is the zero vector), so that a dot product of two genuine   *)
(* embeddings, divided by EmbNorm^2, is their cosine.                      *)
(***************************************************************************)
(* The knowledge base: each item has a source and a content, which         *)
(* _split_sentences cuts into sentences.  A content is written as the      *)
(* sequence of its sentences.                                              *)
KnowledgeBase ==
    << [source |-> "playbook-arquitetura", content |-> <<"s1", "s2">>],
       [source |-> "playbook-openai", content |-> <<"s3">>],
       [source |-> "playbook-produto", content |-> <<"s4">>] >>

(* chunks or [text]: a text without any sentence is its own only chunk.    *)
split_sentences(content) == IF content = <<>> THEN <<"">> ELSE content

VQueries == {"q1", "q2"}

(* _embed_text: a deterministic unit vector per text.                      *)
embed_text(text) ==
    CASE text = "s1" -> <<5, 0>>
      [] text = "s2" -> <<3, 4>>
      [] text = "s3" -> <<0 - 3, 4>>
      [] text = "s4" -> <<0 - 3, 0 - 4>>
      [] text = "q1" -> <<4, 3>>
      [] text = "q2" -> <<0 - 5, 0>>
      [] OTHER       -> <<0, 0>>

(* A JSON list that Redis may hold under a key and that is not the         *)
(* embedding of the key's text.                                            *)
ForeignVector == <<10, 0>>

RECURSIVE DotUpTo(_, _, _)
DotUpTo(a, b, n) == IF n = 0 THEN 0 ELSE a[n] * b[n] + DotUpTo(a, b, n - 1)

(* sum(a * b for a, b in zip(vector_a, vector_b, strict=False))            *)
Dot(vector_a, vector_b) == DotUpTo(vector_a, vector_b, Min2(Len(vector_a), Len(vector_b)))

(* max(0.0, min(1.0, (score + 1) / 2)), in units of 1/ScoreOne.            *)
cosine_similarity(vector_a, vector_b) ==
    Max2(0, Min2(ScoreOne,
                 ((Dot(vector_a, vector_b) + EmbNorm * EmbNorm) * ScoreOne)
                     \div (2 * EmbNorm * EmbNorm)))

(* ContextSnippet.score is declared Field(ge=0.0, le=1.0): building a      *)
(* snippet with another score raises a ValidationError.                    *)
ContextSnippetValid(score) == 0 <= score /\ score <= ScoreOne

(* ---- EmbeddingCache ---- *)
RedisKinds == {"nil", "ok", "other_list", "not_json", "not_list", "not_utf8"}

UsesRedis(c) == c.backend = "redis" /\ c.redis_client

None == [kind |-> "none", vector |-> <<>>]
Raised == [kind |-> "raise", vector |-> <<>>]
Vector(v) == [kind |-> "vector", vector |-> v]

MemoryGet(c, text) ==
    IF text \in DOMAIN c.memory_store THEN Vector(c.memory_store[text]) ELSE None

(* EmbeddingCache.get: None, a list, or an exception of the Redis client   *)
(* or of bytes.decode, which the method does not catch.                    *)
cache_get(c, r, text) ==
    IF c.backend = "none" THEN None
    ELSE IF c.backend = "memory" THEN MemoryGet(c, text)
    ELSE IF ~c.redis_client THEN MemoryGet(c, text)
    ELSE IF ~r.up THEN Raised
    ELSE CASE r.data[text] = "nil"        -> None
           [] r.data[text] = "not_utf8"   -> Raised
           [] r.data[text] = "not_json"   -> None
           [] r.data[text] = "not_list"   -> None
           [] r.data[text] = "ok"         -> Vector(embed_text(text))
           [] r.data[text] = "other_list" -> Vector(ForeignVector)

(* EmbeddingCache.set: [raised, cache, redis] after the call.              *)
cache_set(c, r, text, vector) ==
    IF c.backend = "none" THEN [raised |-> FALSE, cache |-> c, redis |-> r]
    ELSE IF c.backend = "memory" \/ ~c.redis_client
    THEN [raised |-> FALSE,
          cache |-> [c EXCEPT !.memory_store =
                        [t \in DOMAIN c.memory_store \cup {text} |->
                            IF t = text THEN vector ELSE c.memory_store[t]]],
          redis |-> r]
    ELSE IF ~r.up THEN [raised |-> TRUE, cache |-> c, redis |-> r]
    ELSE [raised |-> FALSE, cache |-> c,
          redis |-> [r EXCEPT !.data[text] =
                        IF vector = embed_text(text) THEN "ok" ELSE "other_list"]]

(* VectorRetriever._embed_cached: [raised, vector, cache, redis].          *)
embed_cached(c, r, text) ==
    LET cached == cache_get(c, r, text)
    IN  IF cached.kind = "raise"
        THEN [raised |-> TRUE, vector |-> <<>>, cache |-> c, redis |-> r]
        ELSE IF cached.kind = "vector"
        THEN [raised |-> FALSE, vector |-> cached.vector, cache |-> c, redis |-> r]
        ELSE LET vector == embed_text(text)
                 put == cache_set(c, r, text, vector)
             IN  [raised |-> put.raised,
                  vector |-> IF put.raised THEN <<>> ELSE vector,
                  cache |-> put.cache, redis |-> put.redis]

(* ---- local scan ---- *)
VSnippet(source_prefix, source, content, score) ==
    [source |-> <<source_prefix, source>>, content |-> content, score |-> score]

(* One step of the per-parent merge of _retrieve_locally.                  *)
MergeStep(merged, source_prefix, doc, score) ==
    LET key == <<doc.source, doc.parent_content>>
        snippet == VSnippet(source_prefix, doc.source, doc.parent_content, score)
    IN  IF \E i \in DOMAIN merged : merged[i].key = key
        THEN [i \in DOMAIN merged |->
                IF merged[i].key = key /\ score > merged[i].snippet.score
                THEN [key |-> key, snippet |-> snippet]
                ELSE merged[i]]
        ELSE Append(merged, [key |-> key, snippet |-> snippet])

RECURSIVE MergeByParent(_, _, _, _)
MergeByParent(merged, source_prefix, ranked, query_vector) ==
    IF ranked = <<>> THEN merged
    ELSE MergeByParent(
             MergeStep(merged, source_prefix, Head(ranked),
                       cosine_similarity(query_vector, Head(ranked).embedding)),
             source_prefix, Tail(ranked), query_vector)

SortSnippetsTiesReversed(snippets) ==
    LET ascending == Permute(snippets,
                             sorted_reverse([i \in DOMAIN snippets |->
                                                0 - snippets[i].score]))
    IN  [i \in DOMAIN ascending |-> ascending[Len(ascending) + 1 - i]]

SortSnippets(snippets) ==
    Permute(snippets, sorted_reverse([i \in DOMAIN snippets |-> snippets[i].score]))

RECURSIVE SelectPositive(_)
SelectPositive(snippets) ==
    IF snippets = <<>> THEN <<>>
    ELSE IF Head(snippets).score > 0
         THEN <<Head(snippets)>> \o SelectPositive(Tail(snippets))
         ELSE SelectPositive(Tail(snippets))

(* snippets[:top_k] for top_k >= 1 *)
SliceTopK(snippets, top_k) == Take(snippets, top_k)

(* The scan itself, once the query vector is known.                        *)
LocalScan(documents, query_vector, top_k, source_prefix) ==
    LET ranked == Permute(documents,
                          sorted_reverse([i \in DOMAIN documents |->
                              cosine_similarity(query_vector,
                                                documents[i].embedding)]))
        merged == MergeByParent(<<>>, source_prefix, ranked, query_vector)
        snippets == SortSnippets([i \in DOMAIN merged |-> merged[i].snippet])
    IN  SelectPositive(SliceTopK(snippets, top_k))

(* _retrieve_locally: [raised, result, path, cache, redis].                *)
retrieve_locally(v, c, r, query, top_k, source_prefix) ==
    LET e == embed_cached(c, r, query)
    IN  [raised |-> e.raised,
         result |-> IF e.raised THEN <<>>
                    ELSE LocalScan(v.documents, e.vector, top_k, source_prefix),
         path |-> "local", vector |-> e.vector,
         cache |-> e.cache, redis |-> e.redis]

(* ---- remote backends ---- *)
(* The answer of client.search / index.query: it raises, or delivers hits  *)
(* [source, parent_content, score].                                        *)
ReplyRaise == [kind |-> "raise", hits |-> <<>>]
ReplyHits(hits) == [kind |-> "hits", hits |-> hits]
ReplyNone == [kind |-> "n/a", hits |-> <<>>]

ClampScore(score) == Max2(0, Min2(ScoreOne, score))

(* The merge loop of _retrieve_qdrant / _retrieve_pinecone:                *)
(* [raised, merged]; building a ContextSnippet validates its score.        *)
RECURSIVE RemoteMerge(_, _, _)
RemoteMerge(merged, source_prefix, hits) ==
    IF hits = <<>> THEN [raised |-> FALSE, merged |-> merged]
    ELSE LET hit == Head(hits)
             key == <<hit.source, hit.parent_content>>
             snippet == VSnippet(source_prefix, hit.source, hit.parent_content,
                                 hit.score)
             present == \E i \in DOMAIN merged : merged[i].key = key
             replaces == \E i \in DOMAIN merged :
                            merged[i].key = key /\ hit.score > merged[i].snippet.score
         IN  IF present /\ ~replaces
             THEN RemoteMerge(merged, source_prefix, Tail(hits))
             ELSE IF ~ContextSnippetValid(hit.score)
             THEN [raised |-> TRUE, merged |-> merged]
             ELSE RemoteMerge(
                      IF present
                      THEN [i \in DOMAIN merged |->
                              IF merged[i].key = key
                              THEN [key |-> key, snippet |-> snippet]
                              ELSE merged[i]]
                      ELSE Append(merged, [key |-> key, snippet |-> snippet]),
                      source_prefix, Tail(hits))

(* _retrieve_qdrant and _retrieve_pinecone: the same steps with their own  *)
(* client and prefix.                                                      *)
retrieve_remote(v, c, r, query, top_k, source_prefix, reply) ==
    IF ~v.remote_client
    THEN retrieve_locally(v, c, r, query, top_k, source_prefix)
    ELSE LET e == embed_cached(c, r, query)
             m == RemoteMerge(<<>>, source_prefix, reply.hits)
         IN  IF e.raised \/ reply.kind = "raise" \/ m.raised
             THEN retrieve_locally(v, e.cache, e.redis, query, top_k, source_prefix)
             ELSE [raised |-> FALSE,
                   result |-> SliceTopK(
                       SortSnippets([i \in DOMAIN m.merged |-> m.merged[i].snippet]),
                       top_k),
                   path |-> "remote", vector |-> e.vector,
                   cache |-> e.cache, redis |-> e.redis]

retrieve_qdrant(v, c, r, query, top_k, reply) ==
    retrieve_remote(v, c, r, query, top_k, "vector-qdrant", reply)

retrieve_pinecone(v, c, r, query, top_k, reply) ==
    retrieve_remote(v, c, r, query, top_k, "vector-pinecone", reply)

(* VectorRetriever.retrieve *)
retrieve(v, c, r, query, top_k, reply) ==
    IF v.provider = "none"
    THEN [raised |-> FALSE, result |-> <<>>, path |-> "none", vector |-> <<>>,
          cache |-> c, redis |-> r]
    ELSE IF v.provider = "faiss"
    THEN IF ~v.faiss_installed
         THEN retrieve_locally(v, c, r, query, top_k, "vector-fallback")
         ELSE retrieve_locally(v, c, r, query, top_k, "vector-faiss")
    ELSE IF v.provider = "qdrant" THEN retrieve_qdrant(v, c, r, query, top_k, reply)
    ELSE IF v.provider = "pinecone" THEN retrieve_pinecone(v, c, r, query, top_k, reply)
    ELSE retrieve_locally(v, c, r, query, top_k, "vector-pgvector")

(* ---- construction ---- *)
Providers == {"none", "faiss", "qdrant", "pinecone", "pgvector"}

Sentences == UNION {Range(split_sentences(KnowledgeBase[i].content)) :
                       i \in DOMAIN KnowledgeBase}

RECURSIVE DocsOf(_)
DocsOf(items) ==
    IF items = <<>> THEN <<>>
    ELSE LET item == Head(items)
             sentences == split_sentences(item.content)
         IN  [i \in DOMAIN sentences |->
                 [source |-> item.source, content |-> sentences[i],
                  parent_content |-> item.content,
                  embedding |-> embed_text(sentences[i])]]
             \o DocsOf(Tail(items))

(* The documents as __init__ builds them.  With the Redis cache, the       *)
(* embedding of a sentence is whatever list Redis held under its key.      *)
DocumentSets(c) ==
    {DocsOf(KnowledgeBase)}
    \cup (IF UsesRedis(c)
          THEN {[DocsOf(KnowledgeBase) EXCEPT ![1].embedding = ForeignVector]}
          ELSE {})

CacheConfigs ==
    {[backend |-> "none", redis_client |-> FALSE, memory_store |-> <<>>],
     [backend |-> "redis", redis_client |-> TRUE, memory_store |-> <<>>]}
    \cup {[backend |-> b, redis_client |-> FALSE,
           memory_store |-> [t \in Sentences |-> embed_text(t)]] :
             b \in {"memory", "redis"}}

(* Hits a backend may deliver: a score below 0, within [0,1] or above 1   *)
(* for the first knowledge item, a score within [0,1] for the second.      *)
HitOf(i, score) ==
    [source |-> KnowledgeBase[i].source,
     parent_content |-> KnowledgeBase[i].content, score |-> score]

RemoteHits == {HitOf(1, 0 - 5), HitOf(1, 20), HitOf(1, 60), HitOf(2, 30)}

Replies ==
    {ReplyRaise, ReplyHits(<<>>)}
    \cup {ReplyHits(<<h>>) : h \in RemoteHits}
    \cup {ReplyHits(<<h1, h2>>) : h1 \in RemoteHits, h2 \in RemoteHits}

VecIdle == [pc |-> "idle"]

VcallNone ==
    [op |-> "none", query |-> "", top_k |-> 0, reply |-> ReplyNone,
     raised |-> FALSE, result |-> <<>>, path |-> "none", vector |-> <<>>,
     cache_before |-> [backend |-> "none", redis_client |-> FALSE,
                       memory_store |-> <<>>],
     redis_before |-> [up |-> FALSE, data |-> [q \in VQueries |-> "nil"]]]

InitVector ==
    /\ \E provider \in Providers : \E faiss \in BOOLEAN : \E client \in BOOLEAN :
       \E c \in CacheConfigs : \E documents \in DocumentSets(c) :
         /\ faiss => provider = "faiss"
         /\ client => provider \in {"qdrant", "pinecone"}
         /\ cache = c
         /\ vec = [pc |-> "ready", provider |-> provider,
                   faiss_installed |-> faiss, remote_client |-> client,
                   documents |-> documents]
    /\ redis = [up |-> TRUE, data |-> [q \in VQueries |-> "nil"]]
    /\ vcall = VcallNone

(* A call of retrieve made while no call is pending.                       *)
Retrieve ==
    /\ vec.pc = "ready"
    /\ vcall.op = "none"
    /\ \E query \in VQueries : \E top_k \in 1..MaxTopK :
       \E reply \in (IF vec.remote_client THEN Replies ELSE {ReplyNone}) :
       \E out \in {retrieve(vec, cache, redis, query, top_k, reply)} :
         /\ cache' = out.cache
         /\ redis' = out.redis
         /\ vcall' = [op |-> "retrieve", query |-> query, top_k |-> top_k,
                      reply |-> reply, raised |-> out.raised,
                      result |-> out.result, path |-> out.path,
                      vector |-> out.vector,
                      cache_before |-> cache, redis_before |-> redis]
    /\ UNCHANGED <<fus, svc, vec, chat, rq, lex, idx, lote, stream, mem, scan>>

(* A call of _embed_cached on a query text.                                *)
EmbedCached ==
    /\ vec.pc = "ready"
    /\ vcall.op = "none"
    /\ \E text \in VQueries :
       \E out \in {embed_cached(cache, redis, text)} :
         /\ cache' = out.cache
         /\ redis' = out.redis
         /\ vcall' = [op |-> "embed_cached", query |-> text, top_k |-> 0,
                      reply |-> ReplyNone, raised |-> out.raised,
                      result |-> <<>>, path |-> "none",
                      vector |-> out.vector,
                      cache_before |-> cache, redis_before |-> redis]
    /\ UNCHANGED <<fus, svc, vec, chat, rq, lex, idx, lote, stream, mem, scan>>

(* The caller takes the result (or the exception) of the pending call.     *)
Return ==
    /\ vcall.op # "none"
    /\ vcall' = VcallNone
    /\ UNCHANGED <<fus, svc, vec, cache, redis, chat, rq, lex, idx,
                   lote, stream, mem, scan>>

(* The Redis server is outside the process: it goes down and comes back,   *)
(* and other clients write, and expiry removes, the values of its keys.    *)
RedisAvailability ==
    /\ vec.pc = "ready"
    /\ vcall.op = "none"
    /\ UsesRedis(cache)
    /\ redis' = [redis EXCEPT !.up = ~@]
    /\ UNCHANGED <<fus, svc, vec, cache, vcall, chat, rq, lex, idx,
                   lote, stream, mem, scan>>

RedisForeignWrite ==
    /\ vec.pc = "ready"
    /\ vcall.op = "none"
    /\ UsesRedis(cache)
    /\ redis.up
    /\ \E q \in VQueries : \E kind \in RedisKinds :
         redis' = [redis EXCEPT !.data[q] = kind]
    /\ UNCHANGED <<fus, svc, vec, cache, vcall, chat, rq, lex, idx,
                   lote, stream, mem, scan>>

NextVector ==
    Retrieve \/ EmbedCached \/ Return \/ RedisAvailability \/ RedisForeignWrite

(***************************************************************************)
(* AgentService.chat (src/rag_app/agent/service.py)                        *)
(*                                                                         *)
(* The service owns its gateway, its VectorRetriever, its session memory   *)
(* and the audit log.  A text is named by an identifier; SentenceWords     *)
(* gives the words of each one.  The gateway answers four calls of one     *)
(* chat: the query translation, the rerank judge, the execution plan and   *)
(* the final answer.                                                       *)
(***************************************************************************)
MaxChats == 2

SESSION_MAX_MESSAGES == 8
CHAT_RETRIEVE_TOP_K == 20

SentenceWords(text) ==
    CASE text = "s1" -> <<"agente", "hag">>
      [] text = "s2" -> <<"validacao">>
      [] text = "s3" -> <<"openai", "timeout">>
      [] text = "s4" -> <<"respostas">>
      [] text = "q1" -> <<"Agente,", "openai">>
      [] text = "q2" -> <<"custo">>
      [] OTHER       -> <<>>

RECURSIVE ContentWords(_)
ContentWords(content) ==
    IF content = <<>> THEN <<>>
    ELSE SentenceWords(Head(content)) \o ContentWords(Tail(content))

TokenSet(words) == {StripLower(words[i]) : i \in DOMAIN words} \ {""}

(* knowledge._token_overlap_score, in units of 1/ScoreOne.                 *)
token_overlap_score(query, text) ==
    LET query_tokens == TokenSet(SentenceWords(query))
        text_tokens == TokenSet(SentenceWords(text))
    IN  IF query_tokens = {} \/ text_tokens = {} THEN 0
        ELSE Min2(ScoreOne,
                  (Cardinality(query_tokens \cap text_tokens) * ScoreOne)
                      \div Max2(1, Cardinality(query_tokens)))

(* One step of the loop of retrieve_context over the sentences of an item. *)
(* A source is written as the sequence of its ":"-separated parts: the     *)
(* lexical lookup gives <<source>>, the vector lookup <<prefix, source>>.  *)
BestStep(best, item, score) ==
    LET key == <<item.source, item.content>>
        snippet == Snippet(<<item.source>>, item.content, score)
    IN  IF \E i \in DOMAIN best : best[i].key = key
        THEN [i \in DOMAIN best |->
                IF best[i].key = key /\ score > best[i].snippet.score
                THEN [key |-> key, snippet |-> snippet]
                ELSE best[i]]
        ELSE Append(best, [key |-> key, snippet |-> snippet])

RECURSIVE BestOfSentences(_, _, _, _)
BestOfSentences(best, item, sentences, query) ==
    IF sentences = <<>> THEN best
    ELSE BestOfSentences(
             BestStep(best, item, token_overlap_score(query, Head(sentences))),
             item, Tail(sentences), query)

RECURSIVE BestByParent(_, _, _)
BestByParent(best, items, query) ==
    IF items = <<>> THEN best
    ELSE BestByParent(
             BestOfSentences(best, Head(items),
                             split_sentences(Head(items).content), query),
             Tail(items), query)

retrieve_context_positive_only(query, top_k) ==
    LET best == BestByParent(<<>>, KnowledgeBase, query)
        ranked == SortSnippets([i \in DOMAIN best |-> best[i].snippet])
    IN  SelectPositive(Take(ranked, top_k))

(* knowledge.retrieve_context *)
retrieve_context(query, top_k) ==
    LET best == BestByParent(<<>>, KnowledgeBase, query)
        ranked == SortSnippets([i \in DOMAIN best |-> best[i].snippet])
        positive == SelectPositive(Take(ranked, top_k))
    IN  IF positive # <<>> THEN positive ELSE Take(ranked, 1)

(***************************************************************************)
(* Calls of knowledge.retrieve_context, variable lex: the function keeps   *)
(* no state, lex.calls is the history of the calls made.                   *)
(***************************************************************************)
MaxLexCalls == 2

LexQueries == {"", " ", "q1", "q2"}

LexTopKs == (0 - 1)..MaxTopK

LexIdle == [pc |-> "idle"]

InitLexical == lex = [pc |-> "ready", calls |-> <<>>]

(* retrieve_context has no raise statement and calls nothing that raises   *)
(* on a string and an integer: raised is always FALSE.                     *)
RetrieveContext ==
    /\ lex.pc = "ready"
    /\ Len(lex.calls) < MaxLexCalls
    /\ \E query \in LexQueries : \E top_k \in LexTopKs :
         lex' = [lex EXCEPT !.calls =
                    Append(@, [query |-> query, top_k |-> top_k,
                               raised |-> FALSE,
                               result |-> retrieve_context(query, top_k)])]
    /\ UNCHANGED <<fus, svc, vec, cache, redis, vcall, chat, rq, idx,
                   lote, stream, mem, scan>>

(* guardrails.validate_user_message on the messages of the model.          *)
validate_user_message(user_message) ==
    IF user_message = "bypass"
    THEN [allowed |-> FALSE, message |-> "blocked-by-policy"]
    ELSE [allowed |-> TRUE, message |-> ""]

(* _rewrite_query_for_retrieval with _normalize_translated_query: the      *)
(* translation raises, is empty or too short, or is another query.         *)
Translations == {"raise", "", "q2"}

rewrite_query_for_retrieval(user_message, translation) ==
    IF translation \in {"raise", ""} THEN user_message ELSE translation

(* _rerank_snippets on the words of the candidates.                        *)
chat_rerank(query, snippets, judge) ==
    LET worded == [i \in DOMAIN snippets |->
                      Snippet(snippets[i].source,
                              ContentWords(snippets[i].content),
                              snippets[i].score)]
        ranked == rerank_snippets(SentenceWords(query), worded, judge)
    IN  [i \in DOMAIN ranked |->
            CHOOSE x \in Range(snippets) :
               /\ x.source = ranked[i].source
               /\ ContentWords(x.content) = ranked[i].content
               /\ x.score = ranked[i].score]

(* deque(maxlen=...).append *)
DequeAppend(messages, item) ==
    LET all == Append(messages, item)
    IN  IF Len(all) > SESSION_MAX_MESSAGES
        THEN SubSeq(all, Len(all) - SESSION_MAX_MESSAGES + 1, Len(all))
        ELSE all

GatewayProviders == {"mock", "ollama"}

ChatMessages == {"q1", "bypass"}
ChatProviders == {"default", "ollama"}
ChatSessions == {"no-session", "s1"}

ChatRequests ==
    [user_message : ChatMessages, llm_provider : ChatProviders,
     session_id : ChatSessions]

(* The final generate call: it raises or returns one of two texts.         *)
GatewayAnswers == {"raise", "r1", "r2"}

ChatJudges == {JudgeRaise, JudgeText(Wrapped(<<JInt(1)>>))}

ChatReplies == {ReplyRaise, ReplyHits(<<HitOf(1, 20)>>)}

ChatRetrievers ==
    {[pc |-> "ready", provider |-> "none", faiss_installed |-> FALSE,
      remote_client |-> FALSE, documents |-> DocsOf(KnowledgeBase)],
     [pc |-> "ready", provider |-> "faiss", faiss_installed |-> TRUE,
      remote_client |-> FALSE, documents |-> DocsOf(KnowledgeBase)],
     [pc |-> "ready", provider |-> "qdrant", faiss_installed |-> FALSE,
      remote_client |-> TRUE, documents |-> DocsOf(KnowledgeBase)]}

ChatCacheNone == [backend |-> "none", redis_client |-> FALSE, memory_store |-> <<>>]

ChatRedisNone == [up |-> FALSE, data |-> [q \in VQueries |-> "nil"]]

NoCall ==
    [op |-> "none", request |-> [user_message |-> "", llm_provider |-> "default",
                                 session_id |-> "no-session"],
     raised |-> FALSE, blocked |-> FALSE, rewritten_query |-> "",
     lexical_snippets |-> <<>>, vector_snippets |-> <<>>, candidates |-> <<>>,
     citations |-> <<>>, answer |-> "", provider_used |-> ""]

ChatIdle == [pc |-> "idle"]

InitChat ==
    \E gateway \in GatewayProviders : \E retriever \in ChatRetrievers :
        chat = [pc |-> "ready", gateway |-> gateway, retriever |-> retriever,
                memory |-> <<>>, audit |-> <<>>, n |-> 0,
                prev |-> NoCall, cur |-> NoCall]

(* The pipeline of chat after the guardrail: the record of the call.       *)
chat_pipeline(c, request, translation, reply, judge, answer) ==
    LET rewritten_query == rewrite_query_for_retrieval(request.user_message,
                                                       translation)
        lexical_snippets == retrieve_context(rewritten_query, CHAT_RETRIEVE_TOP_K)
        vector == retrieve(c.retriever, ChatCacheNone, ChatRedisNone,
                           rewritten_query, CHAT_RETRIEVE_TOP_K, reply)
        candidates == deduplicate_snippets(lexical_snippets \o vector.result)
        snippets == chat_rerank(rewritten_query, candidates, judge)
    IN  [op |-> "chat", request |-> request,
         raised |-> vector.raised \/ answer = "raise", blocked |-> FALSE,
         rewritten_query |-> rewritten_query,
         lexical_snippets |-> lexical_snippets,
         vector_snippets |-> vector.result,
         candidates |-> IF vector.raised THEN <<>> ELSE candidates,
         citations |-> IF vector.raised \/ answer = "raise" THEN <<>> ELSE snippets,
         answer |-> IF vector.raised \/ answer = "raise" THEN "" ELSE answer,
         provider_used |-> IF vector.raised \/ answer = "raise" THEN ""
                           ELSE c.gateway]

ChatBlocked(request, message) ==
    [NoCall EXCEPT !.op = "chat", !.request = request, !.blocked = TRUE,
                   !.answer = message, !.provider_used = "guardrail"]

(* AgentService.chat *)
Chat ==
    /\ chat.pc = "ready"
    /\ chat.cur.op = "none"
    /\ chat.n < MaxChats
    /\ \E request \in ChatRequests :
       LET check == validate_user_message(request.user_message)
       IN  IF ~check.allowed
           THEN chat' = [chat EXCEPT
                           !.n = @ + 1,
                           !.audit = Append(@, "chat_blocked_by_guardrail"),
                           !.cur = ChatBlocked(request, check.message)]
           ELSE \E translation \in Translations : \E judge \in ChatJudges :
                \E answer \in GatewayAnswers :
                \E reply \in (IF chat.retriever.remote_client
                              THEN ChatReplies ELSE {ReplyNone}) :
                \E out \in {chat_pipeline(chat, request, translation, reply,
                                          judge, answer)} :
                  chat' = [chat EXCEPT
                             !.n = @ + 1,
                             !.memory =
                                 IF out.raised \/ request.session_id = "no-session"
                                 THEN @
                                 ELSE DequeAppend(
                                          DequeAppend(@, <<"usuario",
                                                          request.user_message>>),
                                          <<"agente", out.answer>>),
                             !.audit = IF out.raised THEN @
                                       ELSE Append(@, "chat_completed"),
                             !.cur = out]
    /\ UNCHANGED <<fus, svc, vec, cache, redis, vcall, rq, lex, idx,
                   lote, stream, mem, scan>>

(* The caller takes the response; the call becomes an earlier call.        *)
ChatReturn ==
    /\ chat.pc = "ready"
    /\ chat.cur.op = "chat"
    /\ chat' = [chat EXCEPT
                  !.prev = IF chat.cur.raised THEN @ ELSE chat.cur,
                  !.cur = NoCall]
    /\ UNCHANGED <<fus, svc, vec, cache, redis, vcall, rq, lex, idx,
                   lote, stream, mem, scan>>

NextChat == Chat \/ ChatReturn

(***************************************************************************)
(* _request_with_retries of src/rag_app/agent/llm_gateway.py, variable rq. *)
(* rq.posts is the history of the outcomes of client.post, rq.sleeps the   *)
(* history of the arguments of time.sleep, in tenths of a second.          *)
(***************************************************************************)
MaxAttempts == 4

MAX_ATTEMPTS_DEFAULT == 4

INITIAL_BACKOFF == 4

RETRYABLE_STATUS == {429, 500, 502, 503, 504}

RECURSIVE Pow2(_)
Pow2(n) == IF n <= 0 THEN 1 ELSE 2 * Pow2(n - 1)

NoError == [kind |-> "none", status |-> 0, body |-> ""]

(* What one client.post can produce: an exception of the transport, or a   *)
(* response with a status and a body.                                      *)
PostStatuses == {200, 404, 429, 501, 503}

PostOutcomes ==
    {[kind |-> k, status |-> 0, body |-> ""] : k \in {"timeout", "network"}}
    \cup {[kind |-> "response", status |-> 200, body |-> b] :
              b \in {"payload", "not-json"}}
    \cup {[kind |-> "response", status |-> s, body |-> ""] :
              s \in PostStatuses \ {200}}

(* response.raise_for_status() raises HTTPStatusError unless 2xx.           *)
RaisesForStatus(o) == o.kind = "response" /\ ~(o.status \in 200..299)

ShouldRetryAnyError(attempt, max_attempts, exc) == attempt < max_attempts

ShouldRetry(attempt, max_attempts, exc) ==
    /\ attempt < max_attempts
    /\ (exc.kind = "response" => exc.status \in RETRYABLE_STATUS)

BackoffLinear(attempt) == INITIAL_BACKOFF * attempt

Backoff(attempt) == INITIAL_BACKOFF * Pow2(attempt - 1)

RqIdle == [pc |-> "idle"]

InitRetry ==
    \E m \in 0..MaxAttempts :
        rq = [pc |-> "loop", max_attempts |-> m, attempt |-> 1,
              posts |-> <<>>, sleeps |-> <<>>, last_error |-> NoError,
              result |-> "", error |-> NoError]

(* One iteration of the for loop: the POST, then return, raise, or sleep.  *)
Attempt ==
    /\ rq.pc = "loop"
    /\ rq.attempt <= rq.max_attempts
    /\ \E o \in PostOutcomes :
        LET posted == [rq EXCEPT !.posts = Append(@, o)]
        IN  IF o.kind = "response" /\ ~RaisesForStatus(o)
            THEN IF o.body = "not-json"
                 THEN rq' = [posted EXCEPT !.pc = "raised",
                                !.error = [kind |-> "JSONDecodeError",
                                           status |-> 0, body |-> ""]]
                 ELSE rq' = [posted EXCEPT !.pc = "returned",
                                           !.result = o.body]
            ELSE IF ~ShouldRetry(rq.attempt, rq.max_attempts, o)
                 THEN rq' = [posted EXCEPT !.pc = "raised", !.error = o]
                 ELSE rq' = [posted EXCEPT
                                !.sleeps = Append(@, Backoff(rq.attempt)),
                                !.last_error = o,
                                !.attempt = @ + 1]
    /\ UNCHANGED <<fus, svc, vec, cache, redis, vcall, chat, lex, idx,
                   lote, stream, mem, scan>>

(* The code after the loop.                                                *)
LoopExhausted ==
    /\ rq.pc = "loop"
    /\ rq.attempt > rq.max_attempts
    /\ rq' = [rq EXCEPT !.pc = "raised",
                 !.error = IF rq.last_error # NoError
                           THEN rq.last_error
                           ELSE [kind |-> "RuntimeError", status |-> 0,
                                 body |-> ""]]
    /\ UNCHANGED <<fus, svc, vec, cache, redis, vcall, chat, lex, idx,
                   lote, stream, mem, scan>>

NextRetry == Attempt \/ LoopExhausted

(***************************************************************************)
(* The lexical index of HybridRetriever (src/retriever.py), variable idx.  *)
(*                                                                         *)
(* A text is the sequence of its words; the blank text is <<>>.  The       *)
(* Chroma collection is the sequence of its entries in insertion order.    *)
(* chromadb, its embedding function and rank_bm25 are libraries outside    *)
(* the repository.  The similarity of the vector query is represented by   *)
(* the number of occurrences of the query tokens in the entry.  The BM25   *)
(* score follows the formula of rank_bm25.BM25Okapi on integers: the       *)
(* logarithms are rounded to thousandths, a score of 0 is exact.           *)
(* Every value written by _reconstruir_bm25 carries the number of the      *)
(* rebuild that wrote it (field build), which the code does not have.      *)
(***************************************************************************)
MaxChunks == 2

Perguntas == {<<"art.", "5", "juros">>, <<>>}

IdxPesos == {<<13, 7>>, <<0 - 1, 7>>}

IdxChunks ==
    {[id |-> "a", conteudo |-> <<"juros", "habitacionais", "art.", "5">>],
     [id |-> "a", conteudo |-> <<"Juros">>],
     [id |-> "b", conteudo |-> <<"prazo", "maximo", "de", "financiamento">>],
     [id |-> "b", conteudo |-> <<>>]}

(* Chunk lists with distinct ids, as Chroma's upsert requires.             *)
ChunkLists ==
    {s \in SeqsUpTo(IdxChunks, MaxChunks) :
        \A i, j \in DOMAIN s : i # j => s[i].id # s[j].id}

LowerWord(w) == IF w = "Juros" THEN "juros" ELSE w

tokenizar(texto) == [i \in DOMAIN texto |-> LowerWord(texto[i])]

Tagged(build, items) == [build |-> build, items |-> items]

Bm25None(build) == [build |-> build, none |-> TRUE, corpus |-> <<>>]

(* HybridRetriever.__init__ over a persisted collection.                   *)
NewRetriever(collection) ==
    [collection |-> collection, builds |-> 0,
     bm25 |-> Bm25None(0),
     bm25_docs |-> Tagged(0, <<>>),
     bm25_ids |-> Tagged(0, <<>>),
     bm25_metas |-> Tagged(0, <<>>)]

(* The loop of indexar_chunks: blank chunks are skipped.                   *)
RECURSIVE ValidChunks(_)
ValidChunks(chunks) ==
    IF chunks = <<>> THEN <<>>
    ELSE IF Head(chunks).conteudo = <<>> THEN ValidChunks(Tail(chunks))
         ELSE <<[id |-> Head(chunks).id,
                 conteudo |-> Head(chunks).conteudo,
                 meta |-> [id |-> Head(chunks).id]]>>
              \o ValidChunks(Tail(chunks))

UpsertOneAppend(collection, entry) == Append(collection, entry)

(* collection.upsert of one entry: an existing id is overwritten in place. *)
UpsertOne(collection, entry) ==
    IF \E i \in DOMAIN collection : collection[i].id = entry.id
    THEN [i \in DOMAIN collection |->
            IF collection[i].id = entry.id THEN entry ELSE collection[i]]
    ELSE Append(collection, entry)

RECURSIVE Upsert(_, _)
Upsert(collection, entries) ==
    IF entries = <<>> THEN collection
    ELSE Upsert(UpsertOne(collection, Head(entries)), Tail(entries))

(* The statements of _reconstruir_bm25, one operator each.                 *)
SetDocs(ix, build, dados) ==
    [ix EXCEPT !.bm25_docs =
        Tagged(build, [i \in DOMAIN dados |-> dados[i].conteudo])]

SetIds(ix, build, dados) ==
    [ix EXCEPT !.bm25_ids = Tagged(build, [i \in DOMAIN dados |-> dados[i].id])]

SetMetas(ix, build, dados) ==
    [ix EXCEPT !.bm25_metas =
        Tagged(build, [i \in DOMAIN dados |-> dados[i].meta])]

SetModel(ix, build) ==
    [ix EXCEPT !.bm25 =
        IF ix.bm25_docs.items = <<>> THEN Bm25None(build)
        ELSE [build |-> build, none |-> FALSE,
              corpus |-> [i \in DOMAIN ix.bm25_docs.items |->
                             tokenizar(ix.bm25_docs.items[i])]]]

reconstruir_bm25(ix) ==
    LET build == ix.builds + 1
        dados == ix.collection
    IN  SetModel(SetMetas(SetIds(SetDocs([ix EXCEPT !.builds = build],
                                         build, dados),
                                 build, dados),
                          build, dados),
                 build)

(* indexar_chunks up to and including the upsert.                          *)
IndexarUpsertClearsFirst(ix, chunks, limpar_colecao) ==
    LET validos == ValidChunks(chunks)
        cleared == IF limpar_colecao THEN [ix EXCEPT !.collection = <<>>]
                   ELSE ix
    IN  IF chunks = <<>> \/ validos = <<>>
        THEN [raised |-> TRUE, ix |-> cleared]
        ELSE [raised |-> FALSE,
              ix |-> [cleared EXCEPT !.collection = Upsert(@, validos)]]

IndexarUpsert(ix, chunks, limpar_colecao) ==
    LET validos == ValidChunks(chunks)
    IN  IF chunks = <<>> \/ validos = <<>>
        THEN [raised |-> TRUE, ix |-> ix]
        ELSE [raised |-> FALSE,
              ix |-> [ix EXCEPT !.collection =
                         Upsert(IF limpar_colecao THEN <<>> ELSE @, validos)]]

indexar_chunks(ix, chunks, limpar_colecao) ==
    LET up == IndexarUpsert(ix, chunks, limpar_colecao)
    IN  IF up.raised THEN up
        ELSE [raised |-> FALSE, ix |-> reconstruir_bm25(up.ix)]

Occurrences(token, doc_tokens) ==
    Cardinality({i \in DOMAIN doc_tokens : doc_tokens[i] = token})

(* rank_bm25.BM25Okapi, with k1 = 1.5, b = 0.75 and epsilon = 0.25.        *)
(* 1000 * ln(num / den) for the ratios (N - n + 0.5) / (n + 0.5) of a      *)
(* corpus of N <= 4 documents, rounded; ln(1) is exactly 0.                *)
LogMilli(num, den) ==
    CASE num = den            -> 0
      [] num = 1 /\ den = 3   -> 0 - 1099
      [] num = 1 /\ den = 5   -> 0 - 1609
      [] num = 5 /\ den = 3   -> 511
      [] num = 3 /\ den = 5   -> 0 - 511
      [] num = 1 /\ den = 7   -> 0 - 1946
      [] num = 7 /\ den = 3   -> 847
      [] num = 3 /\ den = 7   -> 0 - 847
      [] num = 1 /\ den = 9   -> 0 - 2197
      [] OTHER                -> 0

Vocabulary(corpus) ==
    UNION {{corpus[i][j] : j \in DOMAIN corpus[i]} : i \in DOMAIN corpus}

DocFreq(corpus, word) ==
    Cardinality({i \in DOMAIN corpus : Occurrences(word, corpus[i]) > 0})

(* math.log(corpus_size - freq + 0.5) - math.log(freq + 0.5)               *)
RawIdf(corpus, word) ==
    LogMilli(2 * (Len(corpus) - DocFreq(corpus, word)) + 1,
             2 * DocFreq(corpus, word) + 1)

RECURSIVE SumRawIdf(_, _)
SumRawIdf(corpus, words) ==
    IF words = {} THEN 0
    ELSE LET w == CHOOSE x \in words : TRUE
         IN  RawIdf(corpus, w) + SumRawIdf(corpus, words \ {w})

(* _calc_idf: a negative idf is replaced by epsilon * average_idf.         *)
Idf(corpus, word) ==
    IF word \notin Vocabulary(corpus) THEN 0
    ELSE IF RawIdf(corpus, word) < 0
         THEN (SumRawIdf(corpus, Vocabulary(corpus))
                   \div Cardinality(Vocabulary(corpus))) \div 4
         ELSE RawIdf(corpus, word)

RECURSIVE TotalLen(_)
TotalLen(corpus) ==
    IF corpus = <<>> THEN 0 ELSE Len(Head(corpus)) + TotalLen(Tail(corpus))

(* idf * f * (k1 + 1) / (f + k1 * (1 - b + b * doc_len / avgdl)) for one   *)
(* query token, in millionths: numerator and denominator times 8 * total.  *)
TermScore(corpus, token, doc_tokens) ==
    LET f == Occurrences(token, doc_tokens)
        total == TotalLen(corpus)
    IN  IF f = 0 THEN 0
        ELSE (Idf(corpus, token) * 20 * f * total * 1000)
                 \div (8 * f * total + 3 * total
                           + 9 * Len(doc_tokens) * Len(corpus))

RECURSIVE TokenScore(_, _, _)
TokenScore(corpus, query_tokens, doc_tokens) ==
    IF query_tokens = <<>> THEN 0
    ELSE TermScore(corpus, Head(query_tokens), doc_tokens)
         + TokenScore(corpus, Tail(query_tokens), doc_tokens)

(* BM25Okapi.get_scores: one score per document of the corpus.             *)
get_scores(corpus, query_tokens) ==
    [i \in DOMAIN corpus |-> TokenScore(corpus, query_tokens, corpus[i])]

(* The similarity of the vector query: the query tokens the entry holds.   *)
RECURSIVE Overlap(_, _)
Overlap(query_tokens, doc_tokens) ==
    IF query_tokens = <<>> THEN 0
    ELSE Occurrences(Head(query_tokens), doc_tokens)
         + Overlap(Tail(query_tokens), doc_tokens)

RECURSIVE MaxOf(_)
MaxOf(s) ==
    IF s = <<>> THEN 0
    ELSE IF Len(s) = 1 THEN Head(s) ELSE Max2(Head(s), MaxOf(Tail(s)))

(* _buscar_bm25 up to indices_ordenados: what is read from self._bm25.     *)
Bm25Ranking(bm25, pergunta, top_k) ==
    LET query_tokens == tokenizar(pergunta)
        scores == get_scores(bm25.corpus, query_tokens)
    IN  IF bm25.none \/ query_tokens = <<>> \/ scores = <<>>
        THEN [scores |-> <<>>, indices |-> <<>>]
        ELSE [scores |-> scores,
              indices |-> Take(sorted_reverse(scores), top_k)]

(* The loop of _buscar_bm25 over indices_ordenados: self._bm25_ids[i] and  *)
(* self._bm25_docs[i] raise IndexError past the end, metadados is guarded. *)
Bm25Results(ix, ranking) ==
    LET max_score == IF MaxOf(ranking.scores) = 0 THEN 1
                     ELSE MaxOf(ranking.scores)
    IN  IF \E p \in DOMAIN ranking.indices :
               \/ ranking.indices[p] > Len(ix.bm25_ids.items)
               \/ ranking.indices[p] > Len(ix.bm25_docs.items)
        THEN [raised |-> TRUE, resultados |-> <<>>]
        ELSE [raised |-> FALSE,
              resultados |->
                [p \in DOMAIN ranking.indices |->
                    LET i == ranking.indices[p]
                    IN  [id |-> ix.bm25_ids.items[i],
                         conteudo |-> ix.bm25_docs.items[i],
                         metadados |->
                             IF i <= Len(ix.bm25_metas.items)
                             THEN ix.bm25_metas.items[i]
                             ELSE [id |-> ""],
                         score_bm25 |->
                             IF max_score > 0
                             THEN (ranking.scores[i] * ScoreOne) \div max_score
                             ELSE 0]]]

buscar_bm25(ix, pergunta, top_k) ==
    Bm25Results(ix, Bm25Ranking(ix.bm25, pergunta, top_k))

(* _buscar_vetorial: the top_k nearest entries of the collection.          *)
buscar_vetorial(ix, pergunta, top_k) ==
    LET sims == [i \in DOMAIN ix.collection |->
                    Overlap(tokenizar(pergunta),
                            tokenizar(ix.collection[i].conteudo))]
        order == Take(sorted_reverse(sims), top_k)
    IN  [p \in DOMAIN order |-> ix.collection[order[p]].id]

IdsOf(resultados) == [p \in DOMAIN resultados |-> resultados[p].id]

InvalidBuscaOffByOne(pergunta, top_k, pesos) ==
    pergunta = <<>> \/ top_k <= 1 \/ pesos[1] < 0 \/ pesos[2] < 0

InvalidBusca(pergunta, top_k, pesos) ==
    pergunta = <<>> \/ top_k <= 0 \/ pesos[1] < 0 \/ pesos[2] < 0

NoBusca ==
    [op |-> "none", pergunta |-> <<>>, top_k |-> 0, pesos |-> <<0, 0>>,
     raised |-> FALSE, rebuilt |-> FALSE, vetoriais |-> <<>>,
     ranking |-> [scores |-> <<>>, indices |-> <<>>], model_build |-> 0,
     lists_build |-> <<0, 0, 0>>, resultados_bm25 |-> <<>>,
     ranking_final |-> <<>>]

(* buscar, run without interruption.                                       *)
buscar(ix, pergunta, top_k, pesos) ==
    IF InvalidBusca(pergunta, top_k, pesos)
    THEN [ix |-> ix,
          busca |-> [NoBusca EXCEPT !.op = "buscar", !.pergunta = pergunta,
                        !.top_k = top_k, !.pesos = pesos, !.raised = TRUE]]
    ELSE LET ix1 == IF ix.bm25.none THEN reconstruir_bm25(ix) ELSE ix
             vetoriais == buscar_vetorial(ix1, pergunta, top_k)
             ranking == Bm25Ranking(ix1.bm25, pergunta, top_k)
             lexical == Bm25Results(ix1, ranking)
         IN  [ix |-> ix1,
              busca |->
                [op |-> "buscar", pergunta |-> pergunta, top_k |-> top_k,
                 pesos |-> pesos, raised |-> lexical.raised,
                 rebuilt |-> ix.bm25.none, vetoriais |-> vetoriais,
                 ranking |-> ranking, model_build |-> ix1.bm25.build,
                 lists_build |-> <<ix1.bm25_ids.build, ix1.bm25_docs.build,
                                   ix1.bm25_metas.build>>,
                 resultados_bm25 |-> lexical.resultados,
                 ranking_final |->
                     IF lexical.raised THEN <<>>
                     ELSE fundir_rankings(IdsOf(lexical.resultados), vetoriais,
                                          top_k, pesos[1], pesos[2])]]

NoIndexCall ==
    [op |-> "none", chunks |-> <<>>, limpar_colecao |-> FALSE,
     raised |-> FALSE, before |-> NewRetriever(<<>>),
     after |-> NewRetriever(<<>>)]

IdxIdle == [mode |-> "idle"]

(* A collection persisted by an earlier process.                           *)
PersistedCollections ==
    {<<>>,
     ValidChunks(<<[id |-> "a",
                    conteudo |-> <<"juros", "habitacionais", "art.", "5">>],
                   [id |-> "b",
                    conteudo |-> <<"prazo", "maximo", "de",
                                   "financiamento">>]>>)}

(* ---- one thread: every call runs to completion; busca is the buscar     *)
(* made since the last indexar_chunks, if any.  A history is followed up   *)
(* to its second indexar_chunks: last is that call and prev the one        *)
(* before it.                                                              *)
InitIndex ==
    \E collection \in PersistedCollections :
        idx = [mode |-> "seq", ix |-> NewRetriever(collection),
               n_index |-> 0,
               prev |-> NoIndexCall, last |-> NoIndexCall,
               busca |-> NoBusca]

IndexarChunks ==
    /\ idx.mode = "seq"
    /\ idx.prev.op = "none"
    /\ \E chunks \in ChunkLists : \E limpar_colecao \in BOOLEAN :
       \E out \in {indexar_chunks(idx.ix, chunks, limpar_colecao)} :
         idx' = [idx EXCEPT
                   !.ix = out.ix,
                   !.n_index = @ + 1,
                   !.prev = idx.last,
                   !.last = [op |-> "indexar_chunks", chunks |-> chunks,
                             limpar_colecao |-> limpar_colecao,
                             raised |-> out.raised,
                             before |-> idx.ix, after |-> out.ix],
                   !.busca = NoBusca]
    /\ UNCHANGED <<fus, svc, vec, cache, redis, vcall, chat, rq, lex,
                   lote, stream, mem, scan>>

Buscar ==
    /\ idx.mode = "seq"
    /\ idx.busca.op = "none"
    /\ \E pergunta \in Perguntas : \E top_k \in 0..MaxChunks :
       \E pesos \in IdxPesos :
       \E out \in {buscar(idx.ix, pergunta, top_k, pesos)} :
         idx' = [idx EXCEPT !.ix = out.ix, !.busca = out.busca]
    /\ UNCHANGED <<fus, svc, vec, cache, redis, vcall, chat, rq, lex,
                   lote, stream, mem, scan>>

NextIndex == IndexarChunks \/ Buscar

(* ---- two threads: thread "w" runs one indexar_chunks, thread "r" one    *)
(* buscar; the code takes no lock, so the statements of the two calls      *)
(* interleave.                                                             *)
Threads == {"w", "r"}

ThreadIdle ==
    [pc |-> "idle", build |-> 0, dados |-> <<>>,
     chunks |-> <<>>, limpar_colecao |-> FALSE, busca |-> NoBusca]

InitialIndexes ==
    {NewRetriever(c) : c \in PersistedCollections}
    \cup {reconstruir_bm25(NewRetriever(c)) : c \in PersistedCollections}

InitThreads ==
    \E ix \in InitialIndexes :
        idx = [mode |-> "conc", ix |-> ix,
               th |-> [t \in Threads |-> ThreadIdle]]

(* indexar_chunks, lines 84-111.                                           *)
IndexarBegin ==
    /\ idx.mode = "conc"
    /\ idx.th["w"].pc = "idle"
    /\ \E chunks \in ChunkLists : \E limpar_colecao \in BOOLEAN :
       \E out \in {IndexarUpsert(idx.ix, chunks, limpar_colecao)} :
         idx' = [idx EXCEPT
                   !.ix = out.ix,
                   !.th["w"].chunks = chunks,
                   !.th["w"].limpar_colecao = limpar_colecao,
                   !.th["w"].pc = IF out.raised THEN "raised" ELSE "get"]
    /\ UNCHANGED <<fus, svc, vec, cache, redis, vcall, chat, rq, lex,
                   lote, stream, mem, scan>>

(* _reconstruir_bm25, lines 181-184.                                       *)
RebuildGet ==
    /\ idx.mode = "conc"
    /\ \E t \in Threads :
        /\ idx.th[t].pc = "get"
        /\ idx' = [idx EXCEPT !.ix.builds = @ + 1,
                              !.th[t].build = idx.ix.builds + 1,
                              !.th[t].dados = idx.ix.collection,
                              !.th[t].pc = "set_docs"]
    /\ UNCHANGED <<fus, svc, vec, cache, redis, vcall, chat, rq, lex,
                   lote, stream, mem, scan>>

(* line 186 *)
RebuildSetDocs ==
    /\ idx.mode = "conc"
    /\ \E t \in Threads :
        /\ idx.th[t].pc = "set_docs"
        /\ idx' = [idx EXCEPT
                     !.ix = SetDocs(@, idx.th[t].build, idx.th[t].dados),
                     !.th[t].pc = "set_ids"]
    /\ UNCHANGED <<fus, svc, vec, cache, redis, vcall, chat, rq, lex,
                   lote, stream, mem, scan>>

(* line 187 *)
RebuildSetIds ==
    /\ idx.mode = "conc"
    /\ \E t \in Threads :
        /\ idx.th[t].pc = "set_ids"
        /\ idx' = [idx EXCEPT
                     !.ix = SetIds(@, idx.th[t].build, idx.th[t].dados),
                     !.th[t].pc = "set_metas"]
    /\ UNCHANGED <<fus, svc, vec, cache, redis, vcall, chat, rq, lex,
                   lote, stream, mem, scan>>

(* line 188 *)
RebuildSetMetas ==
    /\ idx.mode = "conc"
    /\ \E t \in Threads :
        /\ idx.th[t].pc = "set_metas"
        /\ idx' = [idx EXCEPT
                     !.ix = SetMetas(@, idx.th[t].build, idx.th[t].dados),
                     !.th[t].pc = "set_model"]
    /\ UNCHANGED <<fus, svc, vec, cache, redis, vcall, chat, rq, lex,
                   lote, stream, mem, scan>>

(* lines 190-195; the writer's call is over, the reader goes on to the     *)
(* vector query.                                                           *)
RebuildSetModel ==
    /\ idx.mode = "conc"
    /\ \E t \in Threads :
        /\ idx.th[t].pc = "set_model"
        /\ idx' = [idx EXCEPT
                     !.ix = SetModel(@, idx.th[t].build),
                     !.th[t].pc = IF t = "w" THEN "done" ELSE "vetorial"]
    /\ UNCHANGED <<fus, svc, vec, cache, redis, vcall, chat, rq, lex,
                   lote, stream, mem, scan>>

(* buscar, lines 140-148.                                                  *)
BuscarBegin ==
    /\ idx.mode = "conc"
    /\ idx.th["r"].pc = "idle"
    /\ \E pergunta \in Perguntas : \E top_k \in 0..MaxChunks :
       \E pesos \in IdxPesos :
         idx' = [idx EXCEPT
                   !.th["r"].busca =
                       [NoBusca EXCEPT
                          !.op = "buscar", !.pergunta = pergunta,
                          !.top_k = top_k, !.pesos = pesos,
                          !.raised = InvalidBusca(pergunta, top_k, pesos),
                          !.rebuilt = ~InvalidBusca(pergunta, top_k, pesos)
                                      /\ idx.ix.bm25.none],
                   !.th["r"].pc =
                       IF InvalidBusca(pergunta, top_k, pesos) THEN "raised"
                       ELSE IF idx.ix.bm25.none THEN "get" ELSE "vetorial"]
    /\ UNCHANGED <<fus, svc, vec, cache, redis, vcall, chat, rq, lex,
                   lote, stream, mem, scan>>

(* line 150 *)
BuscarVetorial ==
    /\ idx.mode = "conc"
    /\ idx.th["r"].pc = "vetorial"
    /\ idx' = [idx EXCEPT
                 !.th["r"].busca.vetoriais =
                     buscar_vetorial(idx.ix, idx.th["r"].busca.pergunta,
                                     idx.th["r"].busca.top_k),
                 !.th["r"].pc = "bm25"]
    /\ UNCHANGED <<fus, svc, vec, cache, redis, vcall, chat, rq, lex,
                   lote, stream, mem, scan>>

(* _buscar_bm25, lines 229-241: the reads of self._bm25.                   *)
BuscarBm25Model ==
    /\ idx.mode = "conc"
    /\ idx.th["r"].pc = "bm25"
    /\ idx' = [idx EXCEPT
                 !.th["r"].busca.ranking =
                     Bm25Ranking(idx.ix.bm25, idx.th["r"].busca.pergunta,
                                 idx.th["r"].busca.top_k),
                 !.th["r"].busca.model_build = idx.ix.bm25.build,
                 !.th["r"].pc = "results"]
    /\ UNCHANGED <<fus, svc, vec, cache, redis, vcall, chat, rq, lex,
                   lote, stream, mem, scan>>

(* _buscar_bm25, lines 243-255, then lines 153-162 of buscar.              *)
BuscarBm25Results ==
    /\ idx.mode = "conc"
    /\ idx.th["r"].pc = "results"
    /\ \E lexical \in {Bm25Results(idx.ix, idx.th["r"].busca.ranking)} :
         idx' = [idx EXCEPT
                   !.th["r"].busca.raised = lexical.raised,
                   !.th["r"].busca.lists_build =
                       <<idx.ix.bm25_ids.build, idx.ix.bm25_docs.build,
                         idx.ix.bm25_metas.build>>,
                   !.th["r"].busca.resultados_bm25 = lexical.resultados,
                   !.th["r"].busca.ranking_final =
                       IF lexical.raised THEN <<>>
                       ELSE fundir_rankings(IdsOf(lexical.resultados),
                                            idx.th["r"].busca.vetoriais,
                                            idx.th["r"].busca.top_k,
                                            idx.th["r"].busca.pesos[1],
                                            idx.th["r"].busca.pesos[2]),
                   !.th["r"].pc = IF lexical.raised THEN "raised" ELSE "done"]
    /\ UNCHANGED <<fus, svc, vec, cache, redis, vcall, chat, rq, lex,
                   lote, stream, mem, scan>>

NextThreads ==
    \/ IndexarBegin \/ RebuildGet \/ RebuildSetDocs \/ RebuildSetIds
    \/ RebuildSetMetas \/ RebuildSetModel
    \/ BuscarBegin \/ BuscarVetorial \/ BuscarBm25Model \/ BuscarBm25Results

SvcIdle == [pc |-> "idle"]

(***************************************************************************)
(* The batch evaluator (src/avaliador_em_lote.py), variable lote.          *)
(*                                                                         *)
(* A question carries what its processing will meet: the retrieval         *)
(* (expandir_pergunta and retriever.buscar, outside the try block) works   *)
(* or raises, the generation works or raises one of the errors the except  *)
(* clause names.  With provedor "openai" the questions run on a pool of    *)
(* threads and the caller collects the futures as they complete; with any  *)
(* other provedor they run one after the other in the caller.  The         *)
(* timestamp of a row is left out.                                         *)
(***************************************************************************)
MaxPerguntas == 3

LotePerguntas ==
    {[texto |-> "p1", busca |-> "ok", geracao |-> "ok"],
     [texto |-> "p2", busca |-> "ok", geracao |-> "erro"],
     [texto |-> "p3", busca |-> "raise", geracao |-> "ok"]}

LoteThreads == {1, 2}

LoteProvedores == {"openai", "local"}

NoRow == [pergunta |-> "", trechos |-> <<>>, resposta |-> <<>>]

FalhaRow(q) ==
    [pergunta |-> q.texto, trechos |-> <<"trechos", q.texto>>,
     resposta |-> <<"[Falha ao gerar resposta", q.texto>>]

(* _responder_com_tolerancia: the retrieval is not guarded, the generation *)
(* is.                                                                     *)
responder_com_tolerancia(q) ==
    IF q.busca = "raise" THEN [raised |-> TRUE, row |-> NoRow]
    ELSE IF q.geracao = "erro" THEN [raised |-> FALSE, row |-> FalhaRow(q)]
    ELSE [raised |-> FALSE,
          row |-> [pergunta |-> q.texto, trechos |-> <<"trechos", q.texto>>,
                   resposta |-> <<"resposta", q.texto>>]]

LoteIdle == lote = [pc |-> "idle"]

InitLote ==
    \E perguntas \in SeqsUpTo(LotePerguntas, MaxPerguntas) :
    \E provedor \in LoteProvedores : \E threads \in LoteThreads :
        lote = [pc |-> IF provedor = "openai" THEN "pool" ELSE "loop",
                perguntas |-> perguntas, provedor |-> provedor,
                threads |-> threads,
                fut |-> [i \in DOMAIN perguntas |-> "pending"],
                completed |-> <<>>, collected |-> <<>>,
                resultados_por_indice |-> [i \in DOMAIN perguntas |-> NoRow],
                linhas_relatorio |-> <<>>, result |-> <<>>]

LoteRunning == {i \in DOMAIN lote.fut : lote.fut[i] = "running"}

LotePending == {i \in DOMAIN lote.fut : lote.fut[i] = "pending"}

(* A free worker of the pool takes the oldest submitted call.              *)
WorkerStart ==
    /\ lote.pc \in {"pool", "aborting"}
    /\ LotePending # {}
    /\ Cardinality(LoteRunning) < lote.threads
    /\ LET i == CHOOSE x \in LotePending : \A y \in LotePending : x <= y
       IN  lote' = [lote EXCEPT !.fut[i] = "running"]
    /\ UNCHANGED <<fus, svc, vec, cache, redis, vcall, chat, rq, lex, idx,
                   stream, mem, scan>>

(* A running call ends: its future holds a row or an exception.            *)
WorkerFinish ==
    /\ lote.pc \in {"pool", "aborting"}
    /\ \E i \in LoteRunning :
         lote' = [lote EXCEPT
                    !.fut[i] =
                        IF responder_com_tolerancia(lote.perguntas[i]).raised
                        THEN "failed" ELSE "done",
                    !.completed = Append(@, i)]
    /\ UNCHANGED <<fus, svc, vec, cache, redis, vcall, chat, rq, lex, idx,
                   stream, mem, scan>>

(* One iteration of the loop over as_completed: futuro.result() returns    *)
(* the row or raises the exception of the call.                            *)
CollectNext ==
    /\ lote.pc = "pool"
    /\ Len(lote.collected) < Len(lote.completed)
    /\ LET indice == lote.completed[Len(lote.collected) + 1]
       IN  IF lote.fut[indice] = "failed"
           THEN lote' = [lote EXCEPT !.pc = "aborting"]
           ELSE lote' = [lote EXCEPT
                           !.collected = Append(@, indice),
                           !.resultados_por_indice[indice] =
                               responder_com_tolerancia(
                                   lote.perguntas[indice]).row]
    /\ UNCHANGED <<fus, svc, vec, cache, redis, vcall, chat, rq, lex, idx,
                   stream, mem, scan>>

(* The exception leaves the with block once the pool has shut down, which  *)
(* waits for the calls still submitted.                                    *)
PoolRaise ==
    /\ lote.pc = "aborting"
    /\ LotePending = {} /\ LoteRunning = {}
    /\ lote' = [lote EXCEPT !.pc = "raised"]
    /\ UNCHANGED <<fus, svc, vec, cache, redis, vcall, chat, rq, lex, idx,
                   stream, mem, scan>>

(* return [resultados_por_indice[i] for i in range(total)]                 *)
PoolReturn ==
    /\ lote.pc = "pool"
    /\ Len(lote.collected) = Len(lote.perguntas)
    /\ lote' = [lote EXCEPT
                  !.pc = "returned",
                  !.result = [i \in DOMAIN lote.perguntas |->
                                 lote.resultados_por_indice[i]]]
    /\ UNCHANGED <<fus, svc, vec, cache, redis, vcall, chat, rq, lex, idx,
                   stream, mem, scan>>

(* One iteration of the sequential loop, or its end.                       *)
RespondNext ==
    /\ lote.pc = "loop"
    /\ IF Len(lote.linhas_relatorio) = Len(lote.perguntas)
       THEN lote' = [lote EXCEPT !.pc = "returned",
                                 !.result = lote.linhas_relatorio]
       ELSE LET out == responder_com_tolerancia(
                           lote.perguntas[Len(lote.linhas_relatorio) + 1])
            IN  IF out.raised
                THEN lote' = [lote EXCEPT !.pc = "raised"]
                ELSE lote' = [lote EXCEPT
                                !.linhas_relatorio = Append(@, out.row)]
    /\ UNCHANGED <<fus, svc, vec, cache, redis, vcall, chat, rq, lex, idx,
                   stream, mem, scan>>

NextLote ==
    \/ WorkerStart \/ WorkerFinish \/ CollectNext \/ PoolRaise \/ PoolReturn
    \/ RespondNext

(***************************************************************************)
(* AgentService.chat_stream (src/rag_app/agent/service.py), variable       *)
(* stream: the generator, one action per yield or loop iteration.          *)
(*                                                                         *)
(* An answer is the sequence of its characters.  The call of chat inside   *)
(* the generator returns an answer (the guardrail message of a blocked     *)
(* chat included) or raises.  The only caller, the route                   *)
(* /v1/agent/chat/stream, passes no chunk_size: the sizes are positive.    *)
(***************************************************************************)
MaxAnswer == 3

MaxChunkSize == 2

StreamAnswers == SeqsUpTo({"a", "b"}, MaxAnswer)

StreamIdle == stream = [pc |-> "idle"]

InitStream ==
    \E chunk_size \in 1..MaxChunkSize :
        stream = [pc |-> "created", chunk_size |-> chunk_size,
                  answer |-> <<>>, start |-> 0, events |-> <<>>]

StatusEvent(stage) == [event |-> "status", stage |-> stage, text |-> <<>>]

DeltaAtInclusive(answer, start, chunk_size) ==
    SubSeq(answer, start + 1, Min2(start + chunk_size + 1, Len(answer)))

(* answer[start : start + chunk_size] *)
DeltaAt(answer, start, chunk_size) ==
    SubSeq(answer, start + 1, Min2(start + chunk_size, Len(answer)))

(* yield the status event of stage "starting" *)
StreamStarting ==
    /\ stream.pc = "created"
    /\ stream' = [stream EXCEPT !.pc = "chat",
                                !.events = Append(@, StatusEvent("starting"))]
    /\ UNCHANGED <<fus, svc, vec, cache, redis, vcall, chat, rq, lex, idx,
                   lote, mem, scan>>

(* response = self.chat(request), then the status event "streaming".       *)
StreamChat ==
    /\ stream.pc = "chat"
    /\ \/ stream' = [stream EXCEPT !.pc = "raised"]
       \/ \E answer \in StreamAnswers :
            stream' = [stream EXCEPT
                         !.pc = "deltas", !.answer = answer, !.start = 0,
                         !.events = Append(@, StatusEvent("streaming"))]
    /\ UNCHANGED <<fus, svc, vec, cache, redis, vcall, chat, rq, lex, idx,
                   lote, mem, scan>>

(* One iteration of the loop over range(0, len(answer), chunk_size).       *)
StreamDelta ==
    /\ stream.pc = "deltas"
    /\ stream.start < Len(stream.answer)
    /\ LET delta == DeltaAt(stream.answer, stream.start, stream.chunk_size)
       IN  stream' = [stream EXCEPT
                        !.start = @ + stream.chunk_size,
                        !.events =
                            IF delta = <<>> THEN @
                            ELSE Append(@, [event |-> "delta",
                                            stage |-> "", text |-> delta])]
    /\ UNCHANGED <<fus, svc, vec, cache, redis, vcall, chat, rq, lex, idx,
                   lote, mem, scan>>

(* The loop is over: yield the done event.                                 *)
StreamDone ==
    /\ stream.pc = "deltas"
    /\ stream.start >= Len(stream.answer)
    /\ stream' = [stream EXCEPT
                    !.pc = "finished",
                    !.events = Append(@, [event |-> "done", stage |-> "",
                                          text |-> stream.answer])]
    /\ UNCHANGED <<fus, svc, vec, cache, redis, vcall, chat, rq, lex, idx,
                   lote, mem, scan>>

NextStream == StreamStarting \/ StreamChat \/ StreamDelta \/ StreamDone

(***************************************************************************)
(* The session stores (src/rag_app/agent/session_memory.py) and the        *)
(* periodic semantic summary of AgentService.chat, variable mem.           *)
(*                                                                         *)
(* A text is the sequence of its parts, ": " being a part of its own, so   *)
(* that formatting "role: content" and splitting it again are modelled.    *)
(* The table session_messages is the sequence of its rows in the order of  *)
(* their AUTOINCREMENT id.  The two stores receive the same calls; field   *)
(* hist keeps, per session, what was appended, which the code does not     *)
(* have.  In mode "store" the stores are called directly; in mode          *)
(* "service" two services, one per backend of the session store, receive   *)
(* the same chats and each counts the summaries it persisted.              *)
(***************************************************************************)
MaxMessages == 2

MaxAppends == 3

MaxMemChats == 5

MemSessions == {"s1", "s2"}

MemRoles == {<<"usuario">>, <<"agente">>}

MemContents == {<<"oi">>, <<"a", ": ", "b">>}

SummaryIntervals == {2, 3, 4}

ReverseSeq(seq) == [i \in DOMAIN seq |-> seq[Len(seq) + 1 - i]]

(* f"{role}: {content}" *)
FormatMessage(role, content) == role \o <<": ">> \o content

(* deque(maxlen=maxlen).append *)
deque_append(messages, item, maxlen) ==
    LET all == Append(messages, item)
    IN  IF Len(all) > maxlen
        THEN SubSeq(all, Len(all) - maxlen + 1, Len(all))
        ELSE all

(* SessionMemoryStore *)
MemoryAppend(messages, max_messages, session_id, role, content) ==
    [messages EXCEPT
        ![session_id] = deque_append(@, FormatMessage(role, content),
                                     max_messages)]

MemoryGetRecent(messages, session_id) == messages[session_id]

(* item.split(": ", maxsplit=1) *)
SplitOnce(item) ==
    LET p == CHOOSE x \in DOMAIN item :
                 /\ item[x] = ": "
                 /\ \A y \in 1..(x - 1) : item[y] # ": "
    IN  <<SubSeq(item, 1, p - 1), SubSeq(item, p + 1, Len(item))>>

MemoryGetRecentEntries(messages, session_id) ==
    LET kept == SelectSeq(messages[session_id],
                          LAMBDA item : \E x \in DOMAIN item : item[x] = ": ")
    IN  [i \in DOMAIN kept |-> SplitOnce(kept[i])]

MemoryCount(messages, session_id) == Len(messages[session_id])

(* SQLiteSessionMemoryStore *)
SqliteAppend(rows, session_id, role, content) ==
    Append(rows, [session_id |-> session_id, role |-> role,
                  content |-> content])

SqliteGetRecentEntriesOldest(rows, max_messages, session_id) ==
    LET own == SelectSeq(rows, LAMBDA r : r.session_id = session_id)
        limited == Take(own, max_messages)
    IN  [i \in DOMAIN limited |-> <<limited[i].role, limited[i].content>>]

(* SELECT ... WHERE session_id = ? ORDER BY id DESC LIMIT ?, reversed.     *)
SqliteGetRecentEntries(rows, max_messages, session_id) ==
    LET own == SelectSeq(rows, LAMBDA r : r.session_id = session_id)
        limited == ReverseSeq(Take(ReverseSeq(own), max_messages))
    IN  [i \in DOMAIN limited |-> <<limited[i].role, limited[i].content>>]

SqliteGetRecent(rows, max_messages, session_id) ==
    LET entries == SqliteGetRecentEntries(rows, max_messages, session_id)
    IN  [i \in DOMAIN entries |->
            FormatMessage(entries[i][1], entries[i][2])]

(* SELECT COUNT ... WHERE session_id = ? *)
SqliteCount(rows, session_id) ==
    Len(SelectSeq(rows, LAMBDA r : r.session_id = session_id))

MemIdle == mem = [mode |-> "idle"]

NoSessionData == [session \in MemSessions |-> <<>>]

(* ---- the stores called directly ---- *)
InitStores ==
    \E max_messages \in 1..MaxMessages :
        mem = [mode |-> "store", max_messages |-> max_messages,
               messages |-> NoSessionData, rows |-> <<>>,
               hist |-> NoSessionData, instance |-> 1, n |-> 0]

StoreAppend ==
    /\ mem.mode = "store"
    /\ mem.n < MaxAppends
    /\ \E session_id \in MemSessions : \E role \in MemRoles :
       \E content \in MemContents :
         mem' = [mem EXCEPT
                   !.messages = MemoryAppend(@, mem.max_messages, session_id,
                                             role, content),
                   !.rows = SqliteAppend(@, session_id, role, content),
                   !.hist[session_id] = Append(@, <<role, content>>),
                   !.n = @ + 1]
    /\ UNCHANGED <<fus, svc, vec, cache, redis, vcall, chat, rq, lex, idx,
                   lote, stream, scan>>

(* A second SQLiteSessionMemoryStore on the same file: _ensure_schema      *)
(* creates the table only if it does not exist.                            *)
SqliteReopen ==
    /\ mem.mode = "store"
    /\ mem.instance = 1
    /\ mem' = [mem EXCEPT !.instance = 2]
    /\ UNCHANGED <<fus, svc, vec, cache, redis, vcall, chat, rq, lex, idx,
                   lote, stream, scan>>

(* ---- the services: chat appends the message and the answer, then        *)
(* _maybe_persist_semantic_memory.                                         *)
MemChatKinds == {"s1", "s2", "no-session", "blocked"}

NoMemChat ==
    [kind |-> "none", appended |-> FALSE, persisted_memory |-> FALSE,
     persisted_sqlite |-> FALSE]

InitServices ==
    \E interval \in SummaryIntervals : \E semantic \in BOOLEAN :
        mem = [mode |-> "service", interval |-> interval,
               semantic |-> semantic, messages |-> NoSessionData,
               rows |-> <<>>, hist |-> NoSessionData,
               summaries_memory |-> [session \in MemSessions |-> 0],
               summaries_sqlite |-> [session \in MemSessions |-> 0],
               n |-> 0, last |-> NoMemChat]

(* _maybe_persist_semantic_memory: does it add a summary?                  *)
PersistsSummary(semantic, message_count, interval) ==
    semantic /\ message_count % interval = 0

MemChat ==
    /\ mem.mode = "service"
    /\ mem.n < MaxMemChats
    /\ \E kind \in MemChatKinds :
         IF kind \in {"no-session", "blocked"}
         THEN mem' = [mem EXCEPT !.n = @ + 1,
                                 !.last = [NoMemChat EXCEPT !.kind = kind]]
         ELSE LET messages ==
                      MemoryAppend(
                          MemoryAppend(mem.messages, SESSION_MAX_MESSAGES,
                                       kind, <<"usuario">>, <<"q">>),
                          SESSION_MAX_MESSAGES, kind, <<"agente">>, <<"r">>)
                  rows ==
                      SqliteAppend(
                          SqliteAppend(mem.rows, kind, <<"usuario">>, <<"q">>),
                          kind, <<"agente">>, <<"r">>)
                  in_memory == PersistsSummary(mem.semantic,
                                               MemoryCount(messages, kind),
                                               mem.interval)
                  in_sqlite == PersistsSummary(mem.semantic,
                                               SqliteCount(rows, kind),
                                               mem.interval)
              IN  mem' = [mem EXCEPT
                            !.messages = messages,
                            !.rows = rows,
                            !.hist[kind] = @ \o <<<<<<"usuario">>, <<"q">>>>,
                                                  <<<<"agente">>, <<"r">>>>>>,
                            !.summaries_memory[kind] =
                                IF in_memory THEN @ + 1 ELSE @,
                            !.summaries_sqlite[kind] =
                                IF in_sqlite THEN @ + 1 ELSE @,
                            !.n = @ + 1,
                            !.last = [kind |-> kind, appended |-> TRUE,
                                      persisted_memory |-> in_memory,
                                      persisted_sqlite |-> in_sqlite]]
    /\ UNCHANGED <<fus, svc, vec, cache, redis, vcall, chat, rq, lex, idx,
                   lote, stream, scan>>

InitMemory == InitStores \/ InitServices

NextMemory == StoreAppend \/ SqliteReopen \/ MemChat

(***************************************************************************)
(* FolderIngestionScanner (src/rag_app/ingest/folder_scanner.py),          *)
(* variable scan.  Field follows_same_dir of a run tells that the run      *)
(* before it returned and saw the same directory, which the code does not  *)
(* record.                                                                 *)
(*                                                                         *)
(* The watch directory gives each file name its st_mtime, 0 for a file     *)
(* that does not exist.  The state of the scanner gives each file the      *)
(* mtime recorded at its last ingestion, 0 for none.  The state file is    *)
(* missing or holds the JSON text of a state, every float written as its   *)
(* integer part and its fraction.  pipeline.ingest_docx works or raises.   *)
(***************************************************************************)
MaxRuns == 2

Mtimes == {1, 2}

WatchFiles == {"a.docx", "b.docx", "notes.txt"}

(* sorted(self._watch_dir.glob("*.docx")) over the names of the model.     *)
SortedDocx(dir) ==
    SelectSeq(<<"a.docx", "b.docx">>, LAMBDA name : dir[name] # 0)

EmptyState == [name \in WatchFiles |-> 0]

DumpFloat(value) == <<value, 0>>

LoadFloat(text) == text[1]

StateFileMissing == [exists |-> FALSE, data |-> <<>>]

(* _save_state: json.dumps of the recorded files.                          *)
save_state(state) ==
    [exists |-> TRUE,
     data |-> [name \in {x \in WatchFiles : state[x] # 0} |->
                  DumpFloat(state[name])]]

(* _load_state *)
load_state(state_file) ==
    IF ~state_file.exists THEN EmptyState
    ELSE [name \in WatchFiles |->
             IF name \in DOMAIN state_file.data
             THEN LoadFloat(state_file.data[name]) ELSE 0]

NeedsIngestNewer(state, name, modified_at) == state[name] < modified_at

(* not (self._state.get(file_key) == modified_at) *)
NeedsIngest(state, name, modified_at) == state[name] # modified_at

(* The loop of run_once over the files in names; failing is the file whose *)
(* ingestion raises, "" for none.                                          *)
RECURSIVE RunLoop(_, _, _, _, _)
RunLoop(state, dir, names, failing, ingested) ==
    IF names = <<>>
    THEN [raised |-> FALSE, state |-> state, ingested |-> ingested]
    ELSE LET name == Head(names)
         IN  IF ~NeedsIngest(state, name, dir[name])
             THEN RunLoop(state, dir, Tail(names), failing, ingested)
             ELSE IF name = failing
             THEN [raised |-> TRUE, state |-> state, ingested |-> ingested]
             ELSE RunLoop([state EXCEPT ![name] = dir[name]], dir,
                          Tail(names), failing, Append(ingested, name))

NoRun ==
    [op |-> "none", raised |-> FALSE, dir |-> EmptyState,
     state_before |-> EmptyState, ingested |-> <<>>, returned |-> 0,
     recreated |-> FALSE, follows_same_dir |-> FALSE]

ScanIdle == scan = [pc |-> "idle"]

InitScan ==
    scan = [pc |-> "ready", dir |-> EmptyState, state |-> EmptyState,
            state_file |-> StateFileMissing, runs |-> 0,
            recreated |-> FALSE, last |-> NoRun]

(* FolderIngestionScanner.run_once *)
RunOnce ==
    /\ scan.pc = "ready"
    /\ scan.runs < MaxRuns
    /\ \E failing \in {"", "a.docx", "b.docx"} :
       \E out \in {RunLoop(scan.state, scan.dir, SortedDocx(scan.dir),
                           failing, <<>>)} :
         scan' = [scan EXCEPT
                    !.state = out.state,
                    !.state_file = IF out.raised THEN @
                                   ELSE save_state(out.state),
                    !.runs = @ + 1,
                    !.recreated = FALSE,
                    !.last = [op |-> "run_once", raised |-> out.raised,
                              dir |-> scan.dir, state_before |-> scan.state,
                              ingested |-> out.ingested,
                              returned |-> IF out.raised THEN 0
                                           ELSE Len(out.ingested),
                              recreated |-> scan.recreated,
                              follows_same_dir |->
                                  /\ scan.last.op = "run_once"
                                  /\ ~scan.last.raised
                                  /\ scan.last.dir = scan.dir]]
    /\ UNCHANGED <<fus, svc, vec, cache, redis, vcall, chat, rq, lex, idx,
                   lote, stream, mem>>

(* A file of the watch directory is created, rewritten or removed.         *)
TouchFile ==
    /\ scan.pc = "ready"
    /\ scan.runs < MaxRuns
    /\ \E name \in WatchFiles :
       \E mtime \in (IF name = "notes.txt" THEN {0, 1} ELSE {0} \cup Mtimes) :
         /\ scan.dir[name] # mtime
         /\ scan' = [scan EXCEPT !.dir[name] = mtime]
    /\ UNCHANGED <<fus, svc, vec, cache, redis, vcall, chat, rq, lex, idx,
                   lote, stream, mem>>

(* A new FolderIngestionScanner on the same directory and state file.      *)
Recreate ==
    /\ scan.pc = "ready"
    /\ scan.runs < MaxRuns
    /\ ~scan.recreated
    /\ scan' = [scan EXCEPT !.state = load_state(scan.state_file),
                            !.recreated = TRUE]
    /\ UNCHANGED <<fus, svc, vec, cache, redis, vcall, chat, rq, lex, idx,
                   lote, stream, mem>>

NextScan == RunOnce \/ TouchFile \/ Recreate

FusionIdle == fus = FusIdle

ServiceIdle == svc = SvcIdle

VectorIdle ==
    /\ vec = VecIdle
    /\ cache = [backend |-> "none", redis_client |-> FALSE, memory_store |-> <<>>]
    /\ redis = [up |-> FALSE, data |-> [q \in VQueries |-> "nil"]]
    /\ vcall = VcallNone

ChatAtRest == chat = ChatIdle

RetryIdle == rq = RqIdle

LexicalIdle == lex = LexIdle

IndexIdle == idx = IdxIdle

(* Each component alone, the others idle.                                   *)
OnlyFusion ==
    InitFusion /\ ServiceIdle /\ VectorIdle /\ ChatAtRest /\ RetryIdle
    /\ LexicalIdle /\ IndexIdle
    /\ LoteIdle /\ StreamIdle /\ MemIdle /\ ScanIdle

OnlyService ==
    InitService /\ FusionIdle /\ VectorIdle /\ ChatAtRest /\ RetryIdle
    /\ LexicalIdle /\ IndexIdle
    /\ LoteIdle /\ StreamIdle /\ MemIdle /\ ScanIdle

OnlyVector ==
    InitVector /\ FusionIdle /\ ServiceIdle /\ ChatAtRest /\ RetryIdle
    /\ LexicalIdle /\ IndexIdle
    /\ LoteIdle /\ StreamIdle /\ MemIdle /\ ScanIdle

OnlyChat ==
    InitChat /\ FusionIdle /\ ServiceIdle /\ VectorIdle /\ RetryIdle
    /\ LexicalIdle /\ IndexIdle
    /\ LoteIdle /\ StreamIdle /\ MemIdle /\ ScanIdle

OnlyRetry ==
    InitRetry /\ FusionIdle /\ ServiceIdle /\ VectorIdle /\ ChatAtRest
    /\ LexicalIdle /\ IndexIdle
    /\ LoteIdle /\ StreamIdle /\ MemIdle /\ ScanIdle

OnlyLexical ==
    InitLexical /\ FusionIdle /\ ServiceIdle /\ VectorIdle /\ ChatAtRest
    /\ RetryIdle /\ IndexIdle
    /\ LoteIdle /\ StreamIdle /\ MemIdle /\ ScanIdle

OnlyIndex ==
    InitIndex /\ FusionIdle /\ ServiceIdle /\ VectorIdle /\ ChatAtRest
    /\ RetryIdle /\ LexicalIdle
    /\ LoteIdle /\ StreamIdle /\ MemIdle /\ ScanIdle

OnlyThreads ==
    InitThreads /\ FusionIdle /\ ServiceIdle /\ VectorIdle /\ ChatAtRest
    /\ RetryIdle /\ LexicalIdle
    /\ LoteIdle /\ StreamIdle /\ MemIdle /\ ScanIdle

OnlyLote ==
    InitLote /\ FusionIdle /\ ServiceIdle /\ VectorIdle /\ ChatAtRest
    /\ RetryIdle /\ LexicalIdle /\ IndexIdle
    /\ StreamIdle /\ MemIdle /\ ScanIdle

OnlyStream ==
    InitStream /\ FusionIdle /\ ServiceIdle /\ VectorIdle /\ ChatAtRest
    /\ RetryIdle /\ LexicalIdle /\ IndexIdle
    /\ LoteIdle /\ MemIdle /\ ScanIdle

OnlyMemory ==
    InitMemory /\ FusionIdle /\ ServiceIdle /\ VectorIdle /\ ChatAtRest
    /\ RetryIdle /\ LexicalIdle /\ IndexIdle
    /\ LoteIdle /\ StreamIdle /\ ScanIdle

OnlyScan ==
    InitScan /\ FusionIdle /\ ServiceIdle /\ VectorIdle /\ ChatAtRest
    /\ RetryIdle /\ LexicalIdle /\ IndexIdle
    /\ LoteIdle /\ StreamIdle /\ MemIdle

SpecFusion == OnlyFusion /\ [][FundirRankings]_vars

SpecService == OnlyService /\ [][NextService]_vars

SpecVector == OnlyVector /\ [][NextVector]_vars

SpecChat == OnlyChat /\ [][NextChat]_vars

SpecLexical == OnlyLexical /\ [][RetrieveContext]_vars

SpecIndex == OnlyIndex /\ [][NextIndex]_vars

SpecThreads == OnlyThreads /\ [][NextThreads]_vars

SpecLote == OnlyLote /\ [][NextLote]_vars

SpecStream == OnlyStream /\ [][NextStream]_vars

SpecMemory == OnlyMemory /\ [][NextMemory]_vars

SpecScan == OnlyScan /\ [][NextScan]_vars

(* The loop of _request_with_retries runs in the calling thread and        *)
(* time.sleep returns: an enabled iteration is eventually executed.        *)
SpecRetry == OnlyRetry /\ [][NextRetry]_vars /\ WF_vars(NextRetry)

Init ==
    \/ OnlyFusion \/ OnlyService \/ OnlyVector \/ OnlyChat \/ OnlyRetry
    \/ OnlyLexical \/ OnlyIndex \/ OnlyThreads \/ OnlyLote
    \/ OnlyStream \/ OnlyMemory \/ OnlyScan

Next ==
    \/ FundirRankings \/ NextService \/ NextVector \/ NextChat \/ NextRetry
    \/ RetrieveContext \/ NextIndex \/ NextThreads \/ NextLote
    \/ NextStream \/ NextMemory \/ NextScan

Spec == Init /\ [][Next]_vars

(***************************************************************************)
(* Properties                                                              *)
(***************************************************************************)
FusDone == fus.pc = "done"

RankingIds == [i \in DOMAIN fus.ranking_final |-> fus.ranking_final[i].id]

RankOf(list, id) == CHOOSE i \in DOMAIN list : list[i] = id

(* The combined score the RRF formula gives an id, from its ranks alone.   *)
ExpectedHibrido(id) ==
    (IF id \in Range(fus.resultados_bm25)
     THEN fus.peso_bm25 * (RrfDen \div (K_RRF + RankOf(fus.resultados_bm25, id)))
     ELSE 0)
    + (IF id \in Range(fus.resultados_vetoriais)
       THEN fus.peso_vetorial
              * (RrfDen \div (K_RRF + RankOf(fus.resultados_vetoriais, id)))
       ELSE 0)

(* First-seen position of an id: the lexical list first, then the ids that *)
(* occur only in the vector list.                                          *)
FirstSeen(id) ==
    IF id \in Range(fus.resultados_bm25)
    THEN RankOf(fus.resultados_bm25, id)
    ELSE Len(fus.resultados_bm25) + RankOf(fus.resultados_vetoriais, id)

(* a is ranked before b: a higher combined score, or the same score and    *)
(* seen first.                                                             *)
RankedBefore(a, b) ==
    \/ a.score_hibrido > b.score_hibrido
    \/ a.score_hibrido = b.score_hibrido /\ FirstSeen(a.id) < FirstSeen(b.id)

RetrieveReturned == vcall.op = "retrieve" /\ ~vcall.raised

(* C1: _fundir_rankings and VectorRetriever.retrieve return at most top_k  *)
(* entries, whatever the lengths and the overlap of the lists they merge.  *)
C1_TopKBound ==
    /\ FusDone => Len(fus.ranking_final) <= fus.top_k
    /\ RetrieveReturned => Len(vcall.result) <= vcall.top_k

(* A remote answer with two parents, cut to top_k = 1.                     *)
C1_Witness ==
    /\ RetrieveReturned
    /\ vcall.path = "remote"
    /\ vcall.top_k = 1
    /\ vcall.reply.hits = <<HitOf(1, 20), HitOf(2, 30)>>
    /\ Len(vcall.result) = 1

(* C2: every snippet retrieve returns has a score within [0,1], and a      *)
(* score a backend delivers outside that range is clamped into [0,1]: the  *)
(* hit is neither passed through nor rejected, so the answer is the merge  *)
(* of the delivered hits with their scores clamped.                        *)
ClampedHits(hits) == [i \in DOMAIN hits |-> [hits[i] EXCEPT !.score = ClampScore(@)]]

ClampedAnswer(source_prefix) ==
    LET m == RemoteMerge(<<>>, source_prefix, ClampedHits(vcall.reply.hits))
    IN  SliceTopK(SortSnippets([i \in DOMAIN m.merged |-> m.merged[i].snippet]),
                  vcall.top_k)

SourcePrefix ==
    CASE vec.provider = "qdrant"   -> "vector-qdrant"
      [] vec.provider = "pinecone" -> "vector-pinecone"
      [] vec.provider = "pgvector" -> "vector-pgvector"
      [] vec.provider = "faiss"    ->
            IF vec.faiss_installed THEN "vector-faiss" ELSE "vector-fallback"
      [] OTHER -> "none"

C2_ScoresClamped ==
    RetrieveReturned =>
        /\ \A i \in DOMAIN vcall.result :
              0 <= vcall.result[i].score /\ vcall.result[i].score <= ScoreOne
        /\ vcall.reply.kind = "hits" => vcall.result = ClampedAnswer(SourcePrefix)

(* C3: _deduplicate_snippets, and the per-parent merge of                  *)
(* _retrieve_locally, leave one snippet per (source, content) key, and it  *)
(* carries the highest score among the inputs of that key, in any order of *)
(* the input.                                                              *)
DedupDone == svc.pc = "done" /\ svc.op = "deduplicate_snippets"

OneBestPerKey(result, inputs) ==
    /\ \A i, j \in DOMAIN result :
          i # j => SnippetKey(result[i]) # SnippetKey(result[j])
    /\ \A i \in DOMAIN inputs : \E j \in DOMAIN result :
          /\ SnippetKey(result[j]) = SnippetKey(inputs[i])
          /\ result[j].score >= inputs[i].score
    /\ \A j \in DOMAIN result : \E i \in DOMAIN inputs : result[j] = inputs[i]

(* What the scan scores: one snippet per sentence of the documents.        *)
ScoredSentences ==
    [i \in DOMAIN vec.documents |->
        VSnippet(SourcePrefix, vec.documents[i].source,
                 vec.documents[i].parent_content,
                 cosine_similarity(vcall.vector, vec.documents[i].embedding))]

LocalDone == RetrieveReturned /\ vcall.path = "local"

C3_DedupKeepsBest ==
    /\ DedupDone => OneBestPerKey(svc.result, svc.snippets)
    /\ LocalDone =>
          /\ \A i, j \in DOMAIN vcall.result :
                i # j => SnippetKey(vcall.result[i]) # SnippetKey(vcall.result[j])
          /\ \A j \in DOMAIN vcall.result :
                /\ \E i \in DOMAIN ScoredSentences :
                      ScoredSentences[i] = vcall.result[j]
                /\ \A i \in DOMAIN ScoredSentences :
                      SnippetKey(ScoredSentences[i]) = SnippetKey(vcall.result[j])
                         => ScoredSentences[i].score <= vcall.result[j].score

(* Three snippets of one key, the best one in the middle.                  *)
C3_Witness ==
    /\ DedupDone
    /\ Len(svc.snippets) = 3
    /\ \A i \in 1..3 : SnippetKey(svc.snippets[i]) = SnippetKey(svc.snippets[1])
    /\ svc.snippets[1].score < svc.snippets[2].score
    /\ svc.snippets[3].score < svc.snippets[2].score
    /\ svc.result = <<svc.snippets[2]>>

(* C4: the combined score of every candidate is peso_bm25 / (k_rrf + i)    *)
(* for its lexical rank i plus peso_vetorial / (k_rrf + j) for its vector  *)
(* rank j, each term 0 when the item is absent from that list; the         *)
(* candidates are the items of either list.                                *)
C4_RrfScore ==
    FusDone =>
        /\ {fus.acumulador[i].id : i \in DOMAIN fus.acumulador}
              = Range(fus.resultados_bm25) \cup Range(fus.resultados_vetoriais)
        /\ \A i \in DOMAIN fus.acumulador :
              fus.acumulador[i].score_hibrido = ExpectedHibrido(fus.acumulador[i].id)
        /\ \A i \in DOMAIN fus.ranking_final :
              fus.ranking_final[i].score_hibrido
                 = ExpectedHibrido(fus.ranking_final[i].id)

(* One item in both lists at different ranks, one only in the vector list. *)
C4_Witness ==
    /\ FusDone
    /\ fus.peso_bm25 = 13 /\ fus.peso_vetorial = 7
    /\ fus.resultados_bm25 = <<"a", "b">>
    /\ fus.resultados_vetoriais = <<"c", "a">>
    /\ Len(fus.acumulador) = 3
    /\ \E i \in DOMAIN fus.ranking_final :
          /\ fus.ranking_final[i].id = "c"
          /\ fus.ranking_final[i].score_hibrido > 0

(* C5: the returned list is ordered by combined score, highest first;      *)
(* items of equal score are in first-seen order, the lexical list seen     *)
(* before the ids that occur only in the vector list; and no candidate     *)
(* left out would be ranked before a returned one.                         *)
C5_OrderAndTies ==
    FusDone =>
        /\ \A i, j \in DOMAIN fus.ranking_final :
              i < j => RankedBefore(fus.ranking_final[i], fus.ranking_final[j])
        /\ \A i \in DOMAIN fus.acumulador :
              fus.acumulador[i] \notin Range(fus.ranking_final)
                 => \A j \in DOMAIN fus.ranking_final :
                       RankedBefore(fus.ranking_final[j], fus.acumulador[i])

(* Equal weights: "a" (lexical 1, vector 2) and "b" (lexical 2, vector 1)  *)
(* tie, and so do "c" and "d", each in one list only at rank 3.            *)
C5_Witness ==
    /\ FusDone
    /\ fus.peso_bm25 = fus.peso_vetorial /\ fus.peso_bm25 > 0
    /\ fus.resultados_bm25 = <<"a", "b", "c">>
    /\ fus.resultados_vetoriais = <<"b", "a", "d">>
    /\ RankingIds = <<"a", "b", "c">>

(* C6: with weights (1.0, 0.0) the ids returned are exactly the ids of the *)
(* lexical list, also when the vector list holds ids absent from it.       *)
C6_LexicalOnly ==
    (/\ FusDone
     /\ fus.peso_bm25 = PesoUm /\ fus.peso_vetorial = 0
     /\ Len(fus.resultados_bm25) <= fus.top_k
     /\ Len(fus.resultados_vetoriais) <= fus.top_k)
        => RankingIds = fus.resultados_bm25

(* C7: the indexes extracted are the values of selected_indexes, read from *)
(* the text between the first "{" and the last "}", that are integers in   *)
(* [0, n), without duplicates, in first-occurrence order, at most 5; any   *)
(* other value is rejected.                                                *)
RECURSIVE IntegersInRange(_, _, _)
IntegersInRange(valid, items, n) ==
    IF items = <<>> THEN valid
    ELSE LET value == Head(items)
             keep == /\ value.t = "int"
                     /\ 0 <= value.n /\ value.n < n
                     /\ value.n \notin Range(valid)
         IN  IntegersInRange(IF keep THEN Append(valid, value.n) ELSE valid,
                             Tail(items), n)

SelectedByContract(raw_text, n) ==
    LET start == Find(raw_text, "{")
        end == RFind(raw_text, "}")
        slice == SubSeq(raw_text, start, end)
    IN  IF start = 0 \/ end = 0 \/ end <= start THEN <<>>
        ELSE IF ~JsonLoadsOk(slice) THEN <<>>
        ELSE IF PayloadGet(slice).t # "idx_list" THEN <<>>
        ELSE Take(IntegersInRange(<<>>, PayloadGet(slice).items, n), 5)

ExtractDone == svc.pc = "done" /\ svc.op = "extract_selected_indexes"

C7_ExtractSelectedIndexes ==
    ExtractDone => svc.result = SelectedByContract(svc.raw_text, svc.max_index)

(* C8: when the judge call raises, or its text cannot be parsed, or it     *)
(* names no valid index, _rerank_snippets returns the first 5 candidates   *)
(* (all of them if fewer) of the ordering of _rank_candidates, which is    *)
(* not empty when the input is not.                                        *)
RerankDone == svc.pc = "done" /\ svc.op = "rerank_snippets"

JudgeFailed ==
    \/ svc.judge.kind = "raise"
    \/ SelectedByContract(svc.judge.raw_text,
                          Min2(Len(svc.snippets), RERANK_CANDIDATE_CAP)) = <<>>

C8_RerankFallback ==
    (RerankDone /\ JudgeFailed) =>
        /\ svc.result = Take(rank_candidates(svc.query, svc.snippets), 5)
        /\ svc.snippets # <<>> => svc.result # <<>>

(* C9: with provider qdrant or pinecone, when the client could not be      *)
(* built or synchronised, or raises during the query, retrieve does not    *)
(* raise and returns the local scan of the same documents, its sources     *)
(* prefixed by the provider's name.                                        *)
RemoteUnavailable ==
    /\ vcall.op = "retrieve"
    /\ vec.provider \in {"qdrant", "pinecone"}
    /\ ~vec.remote_client \/ vcall.reply.kind = "raise"

C9_RemoteFallback ==
    RemoteUnavailable =>
        /\ ~vcall.raised
        /\ vcall.path = "local"
        /\ vcall.result = LocalScan(vec.documents, vcall.vector, vcall.top_k,
                                    SourcePrefix)

(* C10: in every state of the embedding cache backend, _embed_cached does  *)
(* not raise and returns the vector _embed_text computes for the text.     *)
C10_CacheBestEffort ==
    vcall.op = "embed_cached" =>
        /\ ~vcall.raised
        /\ vcall.vector = embed_text(vcall.query)

(* The provider a request asks for: its llm_provider, or the provider the  *)
(* service was configured with.                                            *)
TargetProvider(request) ==
    IF request.llm_provider = "default" THEN chat.gateway
    ELSE request.llm_provider

ChatAnswered(call) == call.op = "chat" /\ ~call.raised /\ ~call.blocked

(* C11: two chat requests with the same user message and different target  *)
(* providers do not share a response-cache entry: the second is answered   *)
(* by its own provider and is not reported as served from the response     *)
(* cache.                                                                  *)
C11_ProvidersDoNotShare ==
    (/\ chat.pc = "ready"
     /\ ChatAnswered(chat.prev) /\ ChatAnswered(chat.cur)
     /\ chat.cur.request.user_message = chat.prev.request.user_message
     /\ TargetProvider(chat.cur.request) # TargetProvider(chat.prev.request))
        => /\ chat.cur.provider_used = TargetProvider(chat.cur.request)
           /\ chat.cur.provider_used # "response-cache"

(* C12: a chat call whose request is identical to an earlier completed,    *)
(* non-blocked call on the same service returns the answer of that call    *)
(* and reports provider_used = "response-cache".                           *)
C12_RepeatedRequestFromCache ==
    (/\ chat.pc = "ready"
     /\ ChatAnswered(chat.prev) /\ ChatAnswered(chat.cur)
     /\ chat.cur.request = chat.prev.request)
        => /\ chat.cur.answer = chat.prev.answer
           /\ chat.cur.provider_used = "response-cache"

(***************************************************************************)
(* _request_with_retries                                                   *)
(***************************************************************************)
RetryFinished == rq.pc \in {"returned", "raised"}

RetryableFailure(o) ==
    \/ o.kind \in {"timeout", "network"}
    \/ o.kind = "response" /\ (o.status = 429 \/ o.status \in 500..599)

OtherClientError(o) ==
    o.kind = "response" /\ o.status \in 400..499 /\ o.status # 429

FailedAttempt(o) ==
    o.kind \in {"timeout", "network"} \/ RaisesForStatus(o)

Successful(o) ==
    o.kind = "response" /\ o.status \in 200..299 /\ o.body # "not-json"

(* C13: an attempt is followed by another one only when it failed with a   *)
(* timeout, a network error, HTTP 429 or a 5xx status; a 4xx status other  *)
(* than 429 ends the call at once: it is the last POST, it is the error    *)
(* raised, and no sleep follows it (one POST and no sleep at all when it   *)
(* answers the first attempt).                                             *)
C13_RetryOnlyTransient ==
    rq.pc # "idle" =>
        /\ \A i \in 1..Len(rq.posts) :
              i < Len(rq.posts) => RetryableFailure(rq.posts[i])
        /\ \A i \in 1..Len(rq.posts) :
              OtherClientError(rq.posts[i]) =>
                  /\ i = Len(rq.posts)
                  /\ rq.pc = "raised"
                  /\ rq.error = rq.posts[i]
                  /\ Len(rq.sleeps) = i - 1

C13_Witness ==
    /\ rq.pc = "raised"
    /\ rq.max_attempts = MAX_ATTEMPTS_DEFAULT
    /\ Len(rq.posts) = 1
    /\ rq.posts[1].status = 404
    /\ rq.sleeps = <<>>

C14_Bounded ==
    rq.pc # "idle" =>
        /\ Len(rq.posts) <= rq.max_attempts
        /\ Len(rq.sleeps) <= Len(rq.posts)
        /\ Len(rq.sleeps) < rq.max_attempts \/ rq.sleeps = <<>>
        /\ \A n \in 1..Len(rq.sleeps) :
              /\ rq.sleeps[n] = INITIAL_BACKOFF * Pow2(n - 1)
              /\ ~Successful(rq.posts[n])
        /\ \A i \in 1..Len(rq.posts) :
              Successful(rq.posts[i]) =>
                  /\ i = Len(rq.posts)
                  /\ rq.pc = "returned"
                  /\ rq.result = rq.posts[i].body
                  /\ Len(rq.sleeps) = i - 1
        /\ rq.pc = "returned" => Successful(rq.posts[Len(rq.posts)])
        /\ (/\ rq.pc = "raised"
            /\ rq.max_attempts > 0
            /\ Len(rq.posts) = rq.max_attempts
            /\ \A i \in 1..Len(rq.posts) : FailedAttempt(rq.posts[i])) =>
                /\ rq.error = rq.posts[Len(rq.posts)]
                /\ Len(rq.sleeps) = rq.max_attempts - 1

(* C14: the call ends after at most max_attempts POSTs; it returns the     *)
(* payload of the first successful response and posts nothing after it;    *)
(* the n-th sleep lasts initial_backoff_s * 2^(n-1) and follows a failed   *)
(* attempt, never the last allowed one; when every allowed attempt failed  *)
(* the error of the last one is raised.                                    *)
C14_TerminatesBounded == []C14_Bounded /\ <>RetryFinished

C14_Witness ==
    /\ rq.pc = "returned"
    /\ rq.max_attempts = MAX_ATTEMPTS_DEFAULT
    /\ Len(rq.posts) = 2
    /\ rq.posts[1].status = 429
    /\ rq.posts[2].status = 200
    /\ rq.sleeps = <<INITIAL_BACKOFF>>

(***************************************************************************)
(* Input validation of the retrieval entry points                          *)
(***************************************************************************)
BlankQuery(query) == TokenSet(SentenceWords(query)) = {}

(* C15, for retrieve_context: a call with an empty query or with a top_k   *)
(* that is not positive raises an error and returns no result.             *)
C15_InvalidInputRejected ==
    \A i \in 1..(IF lex.pc = "ready" THEN Len(lex.calls) ELSE 0) :
        (BlankQuery(lex.calls[i].query) \/ lex.calls[i].top_k <= 0) =>
            /\ lex.calls[i].raised
            /\ lex.calls[i].result = <<>>

(***************************************************************************)
(* The lexical index of HybridRetriever                                    *)
(***************************************************************************)
ReaderBusca == idx.th["r"].busca

ReaderFinished ==
    /\ idx.mode = "conc"
    /\ idx.th["r"].pc \in {"done", "raised"}
    /\ ~InvalidBusca(ReaderBusca.pergunta, ReaderBusca.top_k, ReaderBusca.pesos)

(* C16: a buscar that runs while another thread runs indexar_chunks reads  *)
(* the BM25 model, the id list, the document list and the metadata list    *)
(* of one and the same rebuild, does not fail on them, and does not start  *)
(* a rebuild itself.                                                       *)
C16_ReadersSeeOneBuild ==
    ReaderFinished =>
        /\ ~ReaderBusca.raised
        /\ ~ReaderBusca.rebuilt
        /\ ReaderBusca.ranking.indices # <<>> =>
              \A k \in 1..3 :
                  ReaderBusca.lists_build[k] = ReaderBusca.model_build

LastIndexed ==
    /\ idx.mode = "seq"
    /\ idx.last.op = "indexar_chunks"
    /\ ~idx.last.raised

IdSet(items) == {items[p].id : p \in DOMAIN items}

(* C17: after a second successful indexar_chunks(chunks) on a retriever    *)
(* that started empty, the index holds exactly the non-blank chunks of     *)
(* that call, and a buscar made afterwards returns only chunks of that     *)
(* call.                                                                   *)
C17_IndexHoldsLastCall ==
    (/\ LastIndexed
     /\ idx.prev.op = "indexar_chunks"
     /\ ~idx.prev.raised
     /\ idx.prev.before.collection = <<>>) =>
        /\ idx.ix.bm25_ids.items = IdsOf(ValidChunks(idx.last.chunks))
        /\ idx.ix.bm25_docs.items =
              [p \in DOMAIN ValidChunks(idx.last.chunks) |->
                  ValidChunks(idx.last.chunks)[p].conteudo]
        /\ (idx.busca.op = "buscar" /\ ~idx.busca.raised) =>
              IdSet(idx.busca.ranking_final)
                  \subseteq IdSet(ValidChunks(idx.last.chunks))

IndexedTwice ==
    /\ LastIndexed
    /\ idx.prev.op = "indexar_chunks"
    /\ ~idx.prev.raised
    /\ idx.last.chunks = idx.prev.chunks
    /\ idx.last.limpar_colecao = idx.prev.limpar_colecao

(* C18: when indexar_chunks is called twice in a row with the same chunk   *)
(* list, the lexical lookup gives after the second call, for every query   *)
(* and top_k, the result list (ids, order, scores) it gave after the first.*)
C18_IndexarIdempotent ==
    IndexedTwice =>
        \A pergunta \in Perguntas : \A top_k \in 1..MaxChunks :
            buscar_bm25(idx.last.after, pergunta, top_k)
                = buscar_bm25(idx.prev.after, pergunta, top_k)

C18_Witness ==
    /\ IndexedTwice
    /\ ~idx.last.limpar_colecao
    /\ idx.prev.before.collection # <<>>
    /\ idx.ix = idx.last.after
    /\ IdsOf(buscar_bm25(idx.last.after, <<"art.", "5", "juros">>,
                         MaxChunks).resultados) = <<"a", "b">>

(***************************************************************************)
(* The candidates of AgentService.chat                                     *)
(***************************************************************************)
CandidatesBuilt(call) ==
    call.op = "chat" /\ ~call.blocked /\ call.candidates # <<>>

(* The parent document of a snippet: the source without the prefix of the  *)
(* lookup that returned it, and the parent content.                        *)
ParentOf(snippet) == <<snippet.source[Len(snippet.source)], snippet.content>>

(* C19: a parent returned by both the lexical and the vector lookup of a   *)
(* chat call is held once by the candidate list passed to the reranker,    *)
(* with the higher of the two scores.                                      *)
C19_ParentOnceInCandidates ==
    (chat.pc = "ready" /\ CandidatesBuilt(chat.cur)) =>
        \A l \in DOMAIN chat.cur.lexical_snippets :
        \A v \in DOMAIN chat.cur.vector_snippets :
            LET lexical == chat.cur.lexical_snippets[l]
                vector == chat.cur.vector_snippets[v]
                held == {i \in DOMAIN chat.cur.candidates :
                            ParentOf(chat.cur.candidates[i]) = ParentOf(lexical)}
            IN  ParentOf(lexical) = ParentOf(vector) =>
                    /\ Cardinality(held) = 1
                    /\ \A i \in held :
                          chat.cur.candidates[i].score
                              = Max2(lexical.score, vector.score)

(***************************************************************************)
(* Order of the local vector scan                                          *)
(***************************************************************************)
ParentKeys ==
    {<<vec.documents[i].source, vec.documents[i].parent_content>> :
        i \in DOMAIN vec.documents}

SentencesOf(key) ==
    {i \in DOMAIN vec.documents :
        <<vec.documents[i].source, vec.documents[i].parent_content>> = key}

FirstSentence(key) ==
    CHOOSE i \in SentencesOf(key) : \A j \in SentencesOf(key) : i <= j

BestScore(key) ==
    CHOOSE x \in {ScoredSentences[i].score : i \in SentencesOf(key)} :
        \A i \in SentencesOf(key) : ScoredSentences[i].score <= x

(* key comes before other: a higher best score, or the same best score     *)
(* and a first sentence inserted earlier.                                  *)
ParentBefore(key, other) ==
    \/ BestScore(key) > BestScore(other)
    \/ /\ BestScore(key) = BestScore(other)
       /\ FirstSentence(key) < FirstSentence(other)

ParentRank(key) ==
    1 + Cardinality({other \in ParentKeys : ParentBefore(other, key)})

(* C20: the local scan returns the parents in non-increasing order of      *)
(* their best score, parents with equal best scores in the order in which  *)
(* their first sentences were inserted in the document list; the sequence  *)
(* is fixed by the query vector and the documents: the i-th snippet is     *)
(* the parent of rank i, for the ranks up to top_k whose score is above 0. *)
C20_LocalScanOrder ==
    LocalDone =>
        /\ \A i, j \in DOMAIN vcall.result :
              i < j => vcall.result[i].score >= vcall.result[j].score
        /\ Len(vcall.result)
              = Cardinality({key \in ParentKeys :
                                /\ ParentRank(key) <= vcall.top_k
                                /\ BestScore(key) > 0})
        /\ \A key \in ParentKeys :
              ParentRank(key) <= Len(vcall.result) =>
                  vcall.result[ParentRank(key)]
                      = VSnippet(SourcePrefix, key[1], key[2], BestScore(key))

C20_Witness ==
    /\ LocalDone
    /\ Len(vcall.result) >= 2
    /\ \E i \in DOMAIN vcall.result :
          /\ i + 1 \in DOMAIN vcall.result
          /\ vcall.result[i].score = vcall.result[i + 1].score
          /\ vcall.result[i].source # vcall.result[i + 1].source

(***************************************************************************)
(* Lexical scoring of the two-chunk corpus                                 *)
(***************************************************************************)
JurosChunk == <<"juros", "habitacionais", "art.", "5">>

PrazoChunk == <<"prazo", "maximo", "de", "financiamento">>

TwoChunkCorpus ==
    /\ idx.mode = "seq"
    /\ ~idx.ix.bm25.none
    /\ idx.ix.bm25_docs.items = <<JurosChunk, PrazoChunk>>
    /\ idx.ix.bm25.corpus = <<tokenizar(JurosChunk), tokenizar(PrazoChunk)>>

(* C22: on the corpus of the two chunks "juros habitacionais art. 5" and   *)
(* "prazo maximo de financiamento", the BM25 score of the first chunk for  *)
(* the query "art. 5 juros" is strictly greater than the second's, and     *)
(* _buscar_bm25 returns the first chunk first.                             *)
C22_LexicalRanksFirstChunk ==
    TwoChunkCorpus =>
        /\ get_scores(idx.ix.bm25.corpus, tokenizar(<<"art.", "5", "juros">>))[1]
              > get_scores(idx.ix.bm25.corpus,
                           tokenizar(<<"art.", "5", "juros">>))[2]
        /\ IdsOf(buscar_bm25(idx.ix, <<"art.", "5", "juros">>,
                             MaxChunks).resultados) = <<"a", "b">>

(***************************************************************************)
(* buscar on an empty or never built index                                 *)
(***************************************************************************)
ValidBuscaDone ==
    /\ idx.mode = "seq"
    /\ idx.busca.op = "buscar"
    /\ idx.busca.pergunta # <<>>
    /\ idx.busca.top_k > 0
    /\ idx.busca.pesos[1] >= 0
    /\ idx.busca.pesos[2] >= 0

RECURSIVE AllBlank(_)
AllBlank(chunks) ==
    chunks = <<>> \/ (Head(chunks).conteudo = <<>> /\ AllBlank(Tail(chunks)))

ChatReturned ==
    /\ chat.pc = "ready"
    /\ chat.cur.op = "chat"
    /\ ~chat.cur.blocked
    /\ ~chat.cur.raised

(* C28: a chat that the guardrail does not block returns at least one      *)
(* citation: the lexical lookup gives at least one snippet, the            *)
(* deduplication keeps it and the rerank returns a non-empty list.         *)
C28_NonBlockedChatHasCitation ==
    ChatReturned =>
        /\ chat.cur.lexical_snippets # <<>>
        /\ chat.cur.candidates # <<>>
        /\ chat.cur.citations # <<>>

C28_Witness ==
    /\ ChatReturned
    /\ \A i \in DOMAIN chat.cur.lexical_snippets :
           chat.cur.lexical_snippets[i].score = 0
    /\ chat.cur.vector_snippets = <<>>
    /\ Len(chat.cur.citations) = 1

(***************************************************************************)
(* The rows of a batch                                                     *)
(***************************************************************************)
LoteFinished == lote.pc \in {"returned", "raised"}

QuestionFails(q) == q.busca = "raise" \/ q.geracao = "erro"

(* C21: avaliar_em_lote returns one row per question, in the order of the  *)
(* questions, whatever the order in which the workers complete; a question *)
(* whose retrieval or generation fails gets an error row, the batch is not *)
(* aborted and the rows of the other questions are what they would be      *)
(* without the failure.                                                    *)
C21_OneRowPerQuestionInOrder ==
    LoteFinished =>
        /\ lote.pc = "returned"
        /\ Len(lote.result) = Len(lote.perguntas)
        /\ \A i \in DOMAIN lote.perguntas :
              /\ lote.result[i].pergunta = lote.perguntas[i].texto
              /\ QuestionFails(lote.perguntas[i]) =>
                     lote.result[i].resposta[1] = "[Falha ao gerar resposta"
              /\ ~QuestionFails(lote.perguntas[i]) =>
                     lote.result[i].resposta
                         = <<"resposta", lote.perguntas[i].texto>>

(***************************************************************************)
(* The events of chat_stream                                               *)
(***************************************************************************)
StreamActive == stream.pc # "idle"

DeltaEvents ==
    SelectSeq(stream.events, LAMBDA e : e.event = "delta")

RECURSIVE ConcatDeltas(_)
ConcatDeltas(events) ==
    IF events = <<>> THEN <<>>
    ELSE Head(events).text \o ConcatDeltas(Tail(events))

(* C24: the events emitted so far are a beginning of: status "starting",   *)
(* status "streaming", delta events that are non-empty and at most         *)
(* chunk_size long, one done event; a stream that has ended without an     *)
(* exception has emitted all of it, the done event last and once, and its  *)
(* deltas concatenated in emission order are the answer of the done event. *)
C24_StreamEventOrder ==
    StreamActive =>
        /\ \A i \in DOMAIN stream.events :
              LET e == stream.events[i]
              IN  /\ i = 1 <=> e = StatusEvent("starting")
                  /\ i = 2 <=> e = StatusEvent("streaming")
                  /\ i > 2 => e.event \in {"delta", "done"}
                  /\ e.event = "delta" =>
                         /\ e.text # <<>>
                         /\ Len(e.text) <= stream.chunk_size
                  /\ e.event = "done" =>
                         /\ i = Len(stream.events)
                         /\ stream.pc = "finished"
        /\ stream.pc = "finished" =>
              /\ Len(stream.events) >= 3
              /\ stream.events[Len(stream.events)].event = "done"
              /\ stream.events[Len(stream.events)].text = stream.answer
              /\ ConcatDeltas(DeltaEvents)
                     = stream.events[Len(stream.events)].text

C24_Witness ==
    /\ stream.pc = "finished"
    /\ Len(DeltaEvents) >= 2
    /\ Len(DeltaEvents[Len(DeltaEvents)].text) < stream.chunk_size

(***************************************************************************)
(* The session stores                                                      *)
(***************************************************************************)
StoreMode == mem.mode = "store"

LastOf(seq, n) == SubSeq(seq, Max2(1, Len(seq) - n + 1), Len(seq))

ExpectedRecent(session_id) ==
    LET last == LastOf(mem.hist[session_id], mem.max_messages)
    IN  [i \in DOMAIN last |-> last[i][1] \o <<": ">> \o last[i][2]]

(* C26: SQLiteSessionMemoryStore.get_recent returns the last               *)
(* min(n, max_messages) messages appended to the session, oldest first,    *)
(* each as "role: content", whatever was appended to the other session,    *)
(* and a second store instance on the same file returns the same list.     *)
C26_SqliteRecentIsTail ==
    StoreMode =>
        \A session_id \in MemSessions :
            /\ SqliteGetRecent(mem.rows, mem.max_messages, session_id)
                   = ExpectedRecent(session_id)
            /\ Len(SqliteGetRecent(mem.rows, mem.max_messages, session_id))
                   = Min2(Len(mem.hist[session_id]), mem.max_messages)

C26_Witness ==
    /\ StoreMode
    /\ mem.instance = 2
    /\ mem.max_messages = 1
    /\ Len(mem.hist["s1"]) = 2
    /\ Len(mem.hist["s2"]) = 1
    /\ mem.hist["s1"][1] # mem.hist["s1"][2]
    /\ SqliteGetRecent(mem.rows, mem.max_messages, "s1")
           = ExpectedRecent("s1")

(* C30: the two stores, given the same max_messages and the same appends,  *)
(* return equal values from get_recent, get_recent_entries and count for   *)
(* every session after every step.                                         *)
C30_StoresEquivalent ==
    StoreMode =>
        \A session_id \in MemSessions :
            /\ MemoryGetRecent(mem.messages, session_id)
                   = SqliteGetRecent(mem.rows, mem.max_messages, session_id)
            /\ MemoryGetRecentEntries(mem.messages, session_id)
                   = SqliteGetRecentEntries(mem.rows, mem.max_messages,
                                            session_id)
            /\ MemoryCount(mem.messages, session_id)
                   = SqliteCount(mem.rows, session_id)

(***************************************************************************)
(* The periodic semantic summary                                           *)
(***************************************************************************)
SessionChatDone ==
    /\ mem.mode = "service"
    /\ mem.semantic
    /\ mem.last.appended

(* C25: with semantic memory enabled, a chat persists one summary when the *)
(* number of messages appended to its session so far is a multiple of      *)
(* SEMANTIC_MEMORY_SUMMARY_INTERVAL and none otherwise, after any number   *)
(* of chats and with the memory as with the sqlite session store.          *)
C25_SummaryEveryInterval ==
    SessionChatDone =>
        /\ mem.last.persisted_sqlite
              <=> Len(mem.hist[mem.last.kind]) % mem.interval = 0
        /\ mem.last.persisted_memory
              <=> Len(mem.hist[mem.last.kind]) % mem.interval = 0

(***************************************************************************)
(* The folder scanner                                                      *)
(***************************************************************************)
RunReturned(run) == run.op = "run_once" /\ ~run.raised

ChangedDocx(run) ==
    SelectSeq(<<"a.docx", "b.docx">>,
              LAMBDA name : /\ run.dir[name] # 0
                            /\ run.state_before[name] # run.dir[name])

(* C27: a run_once that returns has ingested exactly the .docx files of    *)
(* the watch directory whose mtime differs from the recorded one and       *)
(* returns their number; a run_once that follows a returned run_once with  *)
(* the directory unchanged ingests nothing and returns 0, on the same      *)
(* scanner as on one created again from the saved state file.              *)
C27_RunOnceIngestsChangedOnly ==
    (scan.pc = "ready" /\ RunReturned(scan.last)) =>
        /\ scan.last.ingested = ChangedDocx(scan.last)
        /\ scan.last.returned = Len(ChangedDocx(scan.last))
        /\ scan.state_file = save_state(scan.state)
        /\ scan.last.follows_same_dir =>
               /\ scan.last.ingested = <<>>
               /\ scan.last.returned = 0

C27_Witness ==
    /\ scan.pc = "ready"
    /\ RunReturned(scan.last)
    /\ scan.last.follows_same_dir
    /\ scan.last.recreated
    /\ scan.last.dir["a.docx"] = 2
    /\ scan.last.dir["b.docx"] = 1
    /\ scan.last.dir["notes.txt"] = 1
    /\ scan.last.state_before["a.docx"] = 2
    /\ scan.last.state_before["b.docx"] = 1
    /\ scan.last.returned = 0

====
